---- MODULE Spec2Model ----
(***************************************************************************)
(* A model of tbgp: the IPv4 prefix algebra (package net), the LPM trie    *)
(* (package lpm), the BGP message decoder (package packet) and the         *)
(* per-peer finite state machine (package server).                         *)
(*                                                                         *)
(* Each component has its own specification over the same variables:       *)
(*   SpecPfx   Prefix.Contains / Prefix.GetSupernet on bounded inputs      *)
(*   SpecLPM   LPM.Insert, LPM.Get and LPM.LPM on a trie                   *)
(*   SpecDec   decodeHeader / Decode on bounded byte buffers               *)
(*   Spec      the peer FSM with its helper goroutines                     *)
(*   FairSpec  Spec with weak fairness on the steps no input is needed for *)
(***************************************************************************)
EXTENDS Integers, Sequences, FiniteSets, TLC

VARIABLES
    \* --- prefix algebra harness
    pa,          \* receiver prefix of the last call
    pb,          \* argument prefix of the last call
    pOp,         \* "none" | "Contains" | "GetSupernet"
    pRes,        \* result of the last call
    \* --- LPM trie
    root,        \* LPM.root: <<>> (nil) or <<node>>
    inserted,    \* history: the prefixes Insert was called with
    removed,     \* history: the prefixes Remove was called with and Insert not since
    nInserts,    \* history: the number of Insert calls
    qOp,         \* "none" | "Get" | "GetMore" | "LPM" | "Dump"
    qNeedle,     \* argument of the last query
    qRes,        \* result list of the last query
    \* --- decoder harness
    dBuf,        \* the bytes handed to the decoder
    dOp,         \* "none" or the decoder function called: "decodeHeader", "Decode", ...
    dRes,        \* result of the last call
    \* --- peer FSM
    fsm,         \* the FSM struct: state, connection slots, counters, timers
    mainPc,      \* FSM.main: "select" | "tcpConnect" | "panic" | "done"
    conns,       \* the TCP connections created so far
    rcv,         \* msgReceiver of each connection: "none" | "recv" | "sendMsg" | "sendFail" | "done"
    tc,          \* FSM.tcpConnector: "select" | "busy" | "done"
    stopPc,      \* FSM.Stop: "idle" | "wait" (in t.Wait) | "done"
    dying,       \* tomb: Kill was called
    lastWrite,   \* the messages written by the step just taken
    peer         \* the remote speaker of this run: the connections it and
                 \* tcpConnector open at most, the messages it sends

pfxVars == <<pa, pb, pOp, pRes>>
lpmVars == <<root, inserted, removed, nInserts, qOp, qNeedle, qRes>>
decVars == <<dBuf, dOp, dRes>>
fsmVars == <<fsm, mainPc, conns, rcv, tc, stopPc, dying, lastWrite, peer>>
vars == <<pfxVars, lpmVars, decVars, fsmVars>>

(***************************************************************************)
(* Bounds of the model.                                                    *)
(***************************************************************************)
PfxBits == 3        \* leading address bits that vary in the prefix harness
LpmBits == 2        \* leading address bits that vary in the trie
MaxInserts == 3     \* Insert calls per trie
MaxRemoved == 1     \* prefixes removed and not inserted again, at a time
MaxMsgType == 5     \* largest type byte in the decoder inputs
MaxCons == 2        \* TCP connections created in one run of the FSM

(***************************************************************************)
(* Fixed-width integer arithmetic of Go.                                   *)
(***************************************************************************)
U8(x) == x % 256

\* A uint32 is its 32 bits, most significant first: bit position p of the
\* source (1-based from the MSB) is element p.
Zero32 == [i \in 1 .. 32 |-> 0]
One32 == [i \in 1 .. 32 |-> IF i = 32 THEN 1 ELSE 0]

\* x << n on uint32 with an unsigned shift count: 0 once n >= 32
Shl32(x, n) == IF n >= 32 THEN Zero32
               ELSE [i \in 1 .. 32 |-> IF i + n <= 32 THEN x[i + n] ELSE 0]
\* x >> n on uint32
Shr32(x, n) == IF n >= 32 THEN Zero32
               ELSE [i \in 1 .. 32 |-> IF i <= n THEN 0 ELSE x[i - n]]

And32(x, y) == [i \in 1 .. 32 |-> x[i] * y[i]]

\* the uint32 whose top `width` bits spell the number hi and whose lowest bit is lo
Addr32(hi, width, lo) ==
    [i \in 1 .. 32 |-> IF i <= width THEN (hi \div (2 ^ (width - i))) % 2
                       ELSE IF i = 32 THEN lo ELSE 0]

(***************************************************************************)
(* package net: Prefix                                                     *)
(***************************************************************************)
NewPfx(addr, pfxlen) == [addr |-> addr, pfxlen |-> pfxlen]

min(a, b) == IF a < b THEN a ELSE b

\* the mutant compares all of the top pfxlen bits
ContainsAllBits(pfx, x) ==
    IF x.pfxlen <= pfx.pfxlen THEN FALSE
    ELSE Shr32(pfx.addr, U8(32 - pfx.pfxlen)) = Shr32(x.addr, U8(32 - pfx.pfxlen))

Contains(pfx, x) ==
    IF x.pfxlen <= pfx.pfxlen THEN FALSE
    ELSE LET mask == Shl32(One32, U8(32 - pfx.pfxlen))
         IN  And32(pfx.addr, mask) = And32(x.addr, mask)

Equal(pfx, x) == pfx = x

\* the for loop of GetSupernet: i counts its iterations
RECURSIVE supernetLoop(_, _, _, _)
supernetLoop(a, b, maxPfxLen, i) ==
    IF a = b THEN [a |-> a, maxPfxLen |-> maxPfxLen, i |-> i]
    ELSE supernetLoop(Shr32(a, 1), Shr32(b, 1), U8(maxPfxLen - 1), i + 1)

\* the mutant starts at min(len) instead of min(len) - 1
GetSupernetRunNoDec(pfx, x) ==
    LET maxPfxLen == min(pfx.pfxlen, x.pfxlen)
    IN  supernetLoop(Shr32(pfx.addr, U8(32 - maxPfxLen)),
                     Shr32(x.addr, U8(32 - maxPfxLen)), maxPfxLen, 0)

\* GetSupernet up to the end of its loop
GetSupernetRun(pfx, x) ==
    LET maxPfxLen == U8(min(pfx.pfxlen, x.pfxlen) - 1)
    IN  supernetLoop(Shr32(pfx.addr, U8(32 - maxPfxLen)),
                     Shr32(x.addr, U8(32 - maxPfxLen)), maxPfxLen, 0)

GetSupernet(pfx, x) ==
    LET r == GetSupernetRun(pfx, x)
    IN  NewPfx(Shl32(r.a, U8(32 - r.maxPfxLen)), r.maxPfxLen)

(***************************************************************************)
(* package lpm: the trie.  A node pointer is <<>> (nil) or <<node>>.       *)
(***************************************************************************)
Nil == << >>

newNode(pfx, skip, dummy) ==
    [pfx |-> pfx, skip |-> skip, dummy |-> dummy, l |-> Nil, h |-> Nil]

getBitUint32(x, pos) == And32(x, Shl32(One32, U8(32 - pos))) # Zero32

insertChildren(n, old, new) ==
    LET oldAt == [old EXCEPT !.skip = U8(old.pfx.pfxlen - n.pfx.pfxlen - 1)]
        n1 == IF ~getBitUint32(old.pfx.addr, U8(n.pfx.pfxlen + 1))
              THEN [n EXCEPT !.l = <<oldAt>>]
              ELSE [n EXCEPT !.h = <<oldAt>>]
        nn == newNode(new, U8(new.pfxlen - n.pfx.pfxlen - 1), FALSE)
    IN  IF ~getBitUint32(new.addr, U8(n.pfx.pfxlen + 1))
        THEN [n1 EXCEPT !.l = <<nn>>]
        ELSE [n1 EXCEPT !.h = <<nn>>]

newSuperNode(n, pfx) ==
    LET superNet == GetSupernet(pfx, n.pfx)
        pfxLenDiff == U8(n.pfx.pfxlen - superNet.pfxlen)
        skip == U8(n.skip - pfxLenDiff)
        pseudoNode == newNode(superNet, skip, TRUE)
    IN  insertChildren(pseudoNode, n, pfx)

insertBefore(n, pfx, parentPfxLen) ==
    LET pfxLenDiff == U8(n.pfx.pfxlen - pfx.pfxlen)
        skip == U8(n.skip - pfxLenDiff)
        new == newNode(pfx, skip, FALSE)
        tmp == [n EXCEPT !.skip = U8(n.pfx.pfxlen - pfx.pfxlen - 1)]
    IN  IF ~getBitUint32(pfx.addr, parentPfxLen)
        THEN [new EXCEPT !.l = <<tmp>>]
        ELSE [new EXCEPT !.h = <<tmp>>]

RECURSIVE insert(_, _)
insertLow(n, pfx, parentPfxLen) ==
    IF n.l = Nil
    THEN [n EXCEPT !.l = <<newNode(pfx, U8(pfx.pfxlen - parentPfxLen - 1), FALSE)>>]
    ELSE [n EXCEPT !.l = <<insert(n.l[1], pfx)>>]

insertHigh(n, pfx, parentPfxLen) ==
    IF n.h = Nil
    THEN [n EXCEPT !.h = <<newNode(pfx, U8(pfx.pfxlen - parentPfxLen - 1), FALSE)>>]
    ELSE [n EXCEPT !.h = <<insert(n.h[1], pfx)>>]

insert(n, pfx) ==
    IF n.pfx = pfx THEN n
    ELSE IF ~Contains(n.pfx, pfx)
         THEN IF Contains(pfx, n.pfx)
              THEN insertBefore(n, pfx, U8(n.pfx.pfxlen - n.skip - 1))
              ELSE newSuperNode(n, pfx)
         ELSE IF ~getBitUint32(pfx.addr, U8(n.pfx.pfxlen + 1))
              THEN insertLow(n, pfx, n.pfx.pfxlen)
              ELSE insertHigh(n, pfx, n.pfx.pfxlen)

\* node.lpm: p is a node pointer, res the list built so far
RECURSIVE lpm(_, _, _)
lpm(p, needle, res) ==
    IF p = Nil THEN res
    ELSE LET n == p[1]
         IN  IF n.pfx = needle /\ ~n.dummy THEN Append(res, n.pfx)
             ELSE IF ~Contains(n.pfx, needle) THEN res
             ELSE LET r1 == IF ~n.dummy THEN Append(res, n.pfx) ELSE res
                  IN  lpm(n.h, needle, lpm(n.l, needle, r1))

\* the mutant lists the dummy nodes too
RECURSIVE dumpPfxsAll(_, _)
dumpPfxsAll(p, res) ==
    IF p = Nil THEN << >>
    ELSE LET n == p[1]
             r1 == Append(res, n.pfx)
             r2 == IF n.l # Nil THEN dumpPfxsAll(n.l, r1) ELSE r1
         IN  IF n.h # Nil THEN dumpPfxsAll(n.h, r2) ELSE r2

RECURSIVE dumpPfxs(_, _)
dumpPfxs(p, res) ==
    IF p = Nil THEN << >>
    ELSE LET n == p[1]
             r1 == IF ~n.dummy THEN Append(res, n.pfx) ELSE res
             r2 == IF n.l # Nil THEN dumpPfxs(n.l, r1) ELSE r1
         IN  IF n.h # Nil THEN dumpPfxs(n.h, r2) ELSE r2

\* node.get: the pointer to the node found, or nil
RECURSIVE get(_, _)
get(p, pfx) ==
    IF p = Nil THEN Nil
    ELSE LET n == p[1]
         IN  IF n.pfx = pfx THEN (IF n.dummy THEN Nil ELSE p)
             ELSE IF n.pfx.pfxlen > pfx.pfxlen THEN Nil
             ELSE IF ~getBitUint32(pfx.addr, U8(n.pfx.pfxlen + 1))
                  THEN get(n.l, pfx)
                  ELSE get(n.h, pfx)

\* LPM.LPM
LPM(r, pfx) == IF r = Nil THEN << >> ELSE lpm(r, pfx, << >>)

\* LPM.Get
Get(r, pfx, moreSpecifics) ==
    IF r = Nil THEN << >>
    ELSE LET node == get(r, pfx)
         IN  IF moreSpecifics THEN dumpPfxs(node, << >>)
             ELSE IF node = Nil THEN << >>
             ELSE <<node[1].pfx>>

\* LPM.Dump: dumpPfxs from the root
Dump(r) == dumpPfxs(r, << >>)

\* LPM.Insert: the new root pointer
InsertRoot(r, pfx) ==
    IF r = Nil THEN <<newNode(pfx, pfx.pfxlen, FALSE)>>
    ELSE <<insert(r[1], pfx)>>


(***************************************************************************)
(* package packet: constants                                               *)
(***************************************************************************)
OctetLen == 8
MarkerLen == 16
MinLen == 19
MaxLen == 4096

OpenMsg == 1
UpdateMsg == 2
NotificationMsg == 3
KeepaliveMsg == 4

MessageHeaderError == 1
OpenMessageError == 2
UpdateMessageError == 3
HoldTimeExpired == 4
FiniteStateMachineError == 5
PktCease == 6

ConnectionNotSync == 1
BadMessageLength == 2
BadMessageType == 3

UnsupportedVersionNumber == 1
BadBGPIdentifier == 3
DeprecatedOpenMsgError5 == 5
UnacceptableHoldTime == 6

DeprecatedUpdateMsgError7 == 7
MalformedASPath == 11

BGP4Version == 4

(***************************************************************************)
(* Error values.  A BGPError is a struct value carrying code and subcode;  *)
(* fmt.Errorf builds a plain error that carries only a string.             *)
(***************************************************************************)
NoErr == [kind |-> "nil", code |-> 0, sub |-> 0]
BGPError(c, sc) == [kind |-> "BGPError", code |-> c, sub |-> sc]
PlainError == [kind |-> "error", code |-> 0, sub |-> 0]
\* a run-time panic unwinding through the caller
Panic == [kind |-> "panic", code |-> 0, sub |-> 0]

\* the mutant keeps the error value it was given
ErrorfKeep(err) == err

\* fmt.Errorf("...: %v", err): a new plain error built from err's text
Errorf(err) == PlainError

(***************************************************************************)
(* Reading from a bytes.Buffer: a buffer is the sequence of unread bytes.  *)
(***************************************************************************)
Drop(buf, n) == SubSeq(buf, n + 1, Len(buf))
Take(buf, n) == SubSeq(buf, 1, n)
U16BE(buf) == buf[1] * 256 + buf[2]

NoHdr == [Length |-> 0, Type |-> 0]
NoBody == [kind |-> "nil"]

\* the mutant checks the type before the length
decodeHeaderTypeFirst(buf) ==
    IF Len(buf) = 0
    THEN [hdr |-> NoHdr, err |-> BGPError(PktCease, 0), buf |-> buf]
    ELSE IF Len(buf) < MarkerLen
    THEN [hdr |-> NoHdr, err |-> BGPError(PktCease, 0), buf |-> << >>]
    ELSE IF \E i \in 1 .. MarkerLen : buf[i] # 255
    THEN [hdr |-> NoHdr, err |-> BGPError(MessageHeaderError, ConnectionNotSync),
          buf |-> Drop(buf, MarkerLen)]
    ELSE LET b1 == Drop(buf, MarkerLen)
         IN  IF Len(b1) < 3
             THEN [hdr |-> NoHdr, err |-> BGPError(PktCease, 0), buf |-> << >>]
             ELSE LET hdr == [Length |-> U16BE(b1), Type |-> b1[3]]
                      b2 == Drop(b1, 3)
                  IN  IF hdr.Type > KeepaliveMsg \/ hdr.Type = 0
                      THEN [hdr |-> hdr, buf |-> b2,
                            err |-> BGPError(MessageHeaderError, BadMessageType)]
                      ELSE IF hdr.Length < MinLen \/ hdr.Length > MaxLen
                      THEN [hdr |-> hdr, buf |-> b2,
                            err |-> BGPError(MessageHeaderError, BadMessageLength)]
                      ELSE [hdr |-> hdr, buf |-> b2, err |-> NoErr]

\* _decodeHeader / decodeHeader: the header, the error and the unread rest
decodeHeader(buf) ==
    IF Len(buf) = 0
    THEN [hdr |-> NoHdr, err |-> BGPError(PktCease, 0), buf |-> buf]
    ELSE IF Len(buf) < MarkerLen
    THEN [hdr |-> NoHdr, err |-> BGPError(PktCease, 0), buf |-> << >>]
    ELSE IF \E i \in 1 .. MarkerLen : buf[i] # 255
    THEN [hdr |-> NoHdr, err |-> BGPError(MessageHeaderError, ConnectionNotSync),
          buf |-> Drop(buf, MarkerLen)]
    ELSE LET b1 == Drop(buf, MarkerLen)
         IN  IF Len(b1) < 3
             THEN [hdr |-> NoHdr, err |-> BGPError(PktCease, 0), buf |-> << >>]
             ELSE LET hdr == [Length |-> U16BE(b1), Type |-> b1[3]]
                      b2 == Drop(b1, 3)
                  IN  IF hdr.Length < MinLen \/ hdr.Length > MaxLen
                      THEN [hdr |-> hdr, buf |-> b2,
                            err |-> BGPError(MessageHeaderError, BadMessageLength)]
                      ELSE IF hdr.Type > KeepaliveMsg \/ hdr.Type = 0
                      THEN [hdr |-> hdr, buf |-> b2,
                            err |-> BGPError(MessageHeaderError, BadMessageType)]
                      ELSE [hdr |-> hdr, buf |-> b2, err |-> NoErr]

\* net.IP(convert.Uint32Byte(id)): id is kept as its four bytes, first byte first
isValidIdentifier(id) ==
    IF id[1] = 127 THEN FALSE                          \* IsLoopback
    ELSE IF id[1] \div 16 = 14 THEN FALSE              \* IsMulticast
    ELSE IF id[1] = 0 THEN FALSE
    ELSE IF id[1] = 255 /\ id[2] = 255 /\ id[3] = 255 /\ id[4] = 255 THEN FALSE
    ELSE TRUE

validateOpen(msg) ==
    IF msg.Version # BGP4Version
    THEN BGPError(OpenMessageError, UnsupportedVersionNumber)
    ELSE IF ~isValidIdentifier(msg.BGPIdentifier)
    THEN BGPError(OpenMessageError, BadBGPIdentifier)
    ELSE NoErr

\* _decodeOpenMsg: msg is "nil" where the code returns a nil interface
decodeOpenMsgInner(buf) ==
    IF Len(buf) < 10
    THEN [msg |-> [kind |-> "open", Version |-> 0, AS |-> 0, HoldTime |-> 0,
                   BGPIdentifier |-> <<0, 0, 0, 0>>, OptParmLen |-> 0],
          err |-> PlainError, buf |-> << >>]
    ELSE LET msg == [kind |-> "open",
                     Version |-> buf[1],
                     AS |-> U16BE(Drop(buf, 1)),
                     HoldTime |-> U16BE(Drop(buf, 3)),
                     BGPIdentifier |-> SubSeq(buf, 6, 9),
                     OptParmLen |-> buf[10]]
             err == validateOpen(msg)
         IN  IF err # NoErr
             THEN [msg |-> NoBody, err |-> err, buf |-> Drop(buf, 10)]
             ELSE [msg |-> msg, err |-> NoErr, buf |-> Drop(buf, 10)]

\* decodeOpenMsg: msg.(*BGPOpen) panics on the nil interface
decodeOpenMsg(buf) ==
    LET r == decodeOpenMsgInner(buf)
    IN  IF r.msg = NoBody THEN [msg |-> NoBody, err |-> Panic, buf |-> r.buf]
        ELSE r

\* the mutant accepts the deprecated subcodes 5 and 7
decodeNotificationMsgDeprecated(buf) ==
    IF Len(buf) < 2
    THEN [msg |-> [kind |-> "notification", ErrorCode |-> 0, ErrorSubcode |-> 0],
          err |-> PlainError, buf |-> << >>]
    ELSE LET msg == [kind |-> "notification", ErrorCode |-> buf[1], ErrorSubcode |-> buf[2]]
             c == msg.ErrorCode
             sc == msg.ErrorSubcode
             bad == IF c > PktCease THEN TRUE
                    ELSE IF c = MessageHeaderError THEN sc > BadMessageType \/ sc = 0
                    ELSE IF c = OpenMessageError
                    THEN sc > UnacceptableHoldTime \/ sc = 0
                    ELSE IF c = UpdateMessageError
                    THEN sc > MalformedASPath \/ sc = 0
                    ELSE IF c \in {HoldTimeExpired, FiniteStateMachineError, PktCease}
                    THEN sc # 0
                    ELSE TRUE
         IN  [msg |-> msg, err |-> IF bad THEN PlainError ELSE NoErr, buf |-> Drop(buf, 2)]

\* _decodeNotificationMsg / decodeNotificationMsg
decodeNotificationMsg(buf) ==
    IF Len(buf) < 2
    THEN [msg |-> [kind |-> "notification", ErrorCode |-> 0, ErrorSubcode |-> 0],
          err |-> PlainError, buf |-> << >>]
    ELSE LET msg == [kind |-> "notification", ErrorCode |-> buf[1], ErrorSubcode |-> buf[2]]
             c == msg.ErrorCode
             sc == msg.ErrorSubcode
             bad == IF c > PktCease THEN TRUE
                    ELSE IF c = MessageHeaderError THEN sc > BadMessageType \/ sc = 0
                    ELSE IF c = OpenMessageError
                    THEN sc > UnacceptableHoldTime \/ sc = 0 \/ sc = DeprecatedOpenMsgError5
                    ELSE IF c = UpdateMessageError
                    THEN sc > MalformedASPath \/ sc = 0 \/ sc = DeprecatedUpdateMsgError7
                    ELSE IF c \in {HoldTimeExpired, FiniteStateMachineError, PktCease}
                    THEN sc # 0
                    ELSE TRUE
         IN  [msg |-> msg, err |-> IF bad THEN PlainError ELSE NoErr, buf |-> Drop(buf, 2)]


(***************************************************************************)
(* package packet: UPDATE                                                  *)
(***************************************************************************)
U16(x) == x % 65536

OriginAttr == 1
ASPathAttr == 2
NextHopAttr == 3
MEDAttr == 4
LocalPrefAttr == 5
AtomicAggrAttr == 6
AggregatorAttr == 7

ASSet == 1
ASSequence == 2

IPv4len == 4

\* binary.Read of n bytes (io.ReadFull): a short buffer is drained and fails
ReadFull(buf, n) ==
    IF Len(buf) >= n THEN [ok |-> TRUE, bytes |-> Take(buf, n), buf |-> Drop(buf, n)]
    ELSE [ok |-> FALSE, bytes |-> buf, buf |-> << >>]

\* bytes.Buffer.Read into a slice of n bytes: EOF only on an empty buffer
BufRead(buf, n) ==
    IF Len(buf) = 0 THEN [n |-> 0, eof |-> TRUE, bytes |-> << >>, buf |-> buf]
    ELSE LET k == min(n, Len(buf))
         IN  [n |-> k, eof |-> FALSE, bytes |-> Take(buf, k), buf |-> Drop(buf, k)]

\* ceil(pfxlen / 8) as uint8
CeilOctets(pfxlen) == (pfxlen + OctetLen - 1) \div OctetLen

\* the address loop of decodeNLRI: i is the loop index
RECURSIVE nlriAddrLoop(_, _, _, _)
nlriAddrLoop(buf, i, toCopy, addr) ==
    IF i >= IPv4len % OctetLen THEN [ok |-> TRUE, addr |-> addr, buf |-> buf]
    ELSE IF i < toCopy
    THEN LET r == ReadFull(buf, 1)
         IN  IF ~r.ok THEN [ok |-> FALSE, addr |-> addr, buf |-> r.buf]
             ELSE nlriAddrLoop(r.buf, i + 1, toCopy, [addr EXCEPT ![i + 1] = r.bytes[1]])
    ELSE nlriAddrLoop(buf, i + 1, toCopy, [addr EXCEPT ![i + 1] = 0])

\* decodeNLRI after the address bytes were read
decodeNLRIAddr(pfxlen, toCopy, a) ==
    IF ~a.ok THEN [ok |-> FALSE, nlri |-> NoBody, consumed |-> 0, buf |-> a.buf]
    ELSE [ok |-> TRUE, nlri |-> [Pfxlen |-> pfxlen, IP |-> a.addr],
          consumed |-> U8(toCopy + 1), buf |-> a.buf]

\* decodeNLRI after the prefix length byte r was read
decodeNLRIPfx(r, toCopy) ==
    IF ~r.ok THEN [ok |-> FALSE, nlri |-> NoBody, consumed |-> 0, buf |-> r.buf]
    ELSE decodeNLRIAddr(r.bytes[1], toCopy, nlriAddrLoop(r.buf, 0, toCopy, <<0, 0, 0, 0>>))

decodeNLRI(buf) ==
    LET r == ReadFull(buf, 1)
    IN  decodeNLRIPfx(r, IF r.ok THEN U8(CeilOctets(r.bytes[1])) ELSE 0)

\* decodeNLRIs: ret is the list built so far, p the bytes accounted for
RECURSIVE nlrisLoop(_, _, _, _)
\* the loop body after decodeNLRI returned r
nlrisNext(r, length, p, ret) ==
    IF ~r.ok THEN [err |-> PlainError, list |-> << >>, buf |-> r.buf]
    ELSE nlrisLoop(r.buf, length, U16(p + r.consumed), Append(ret, r.nlri))

nlrisLoop(buf, length, p, ret) ==
    IF ~(p < length) THEN [err |-> NoErr, list |-> ret, buf |-> buf]
    ELSE nlrisNext(decodeNLRI(buf), length, p, ret)

decodeNLRIs(buf, length) == nlrisLoop(buf, length, 0, << >>)

dumpNBytes(buf, n) ==
    IF n = 0 THEN [ok |-> TRUE, buf |-> buf]
    ELSE LET r == ReadFull(buf, n) IN [ok |-> r.ok, buf |-> r.buf]

\* setLength: the declared length and the bytes read for it
setLength(buf, extendedLength) ==
    IF extendedLength
    THEN LET r == ReadFull(buf, 2)
         IN  IF ~r.ok THEN [ok |-> FALSE, Length |-> 0, bytesRead |-> 0, buf |-> r.buf]
             ELSE [ok |-> TRUE, Length |-> U16BE(r.bytes), bytesRead |-> 2, buf |-> r.buf]
    ELSE LET r == ReadFull(buf, 1)
         IN  IF ~r.ok THEN [ok |-> FALSE, Length |-> 0, bytesRead |-> 0, buf |-> r.buf]
             ELSE [ok |-> TRUE, Length |-> r.bytes[1], bytesRead |-> 1, buf |-> r.buf]

isOptional(x) == (x \div 128) % 2 = 1
isTransitive(x) == (x \div 64) % 2 = 1
isPartial(x) == (x \div 32) % 2 = 1
isExtendedLength(x) == (x \div 16) % 2 = 1

\* the trailing dumpNBytes of a value decoder: d is its result
dumpRest(value, d) == [ok |-> d.ok, value |-> value, buf |-> d.buf]

\* decodeOrigin: the value is 0 when its byte cannot be read
decodeOrigin(buf, length) ==
    LET r == ReadFull(buf, 1)
    IN  IF ~r.ok THEN [ok |-> FALSE, value |-> <<0>>, buf |-> r.buf]
        ELSE dumpRest(r.bytes, dumpNBytes(r.buf, U16(length - 1)))

\* decodeUint32 (decodeMED, decodeLocalPref): the value is kept as its 4 bytes
decodeUint32Rest(value, d) ==
    [ok |-> d.ok, value |-> IF d.ok THEN value ELSE << >>, buf |-> d.buf]

decodeUint32(buf, length) ==
    LET r == ReadFull(buf, 4)
    IN  IF ~r.ok THEN [ok |-> FALSE, value |-> << >>, buf |-> r.buf]
        ELSE decodeUint32Rest(r.bytes, dumpNBytes(r.buf, U16(length - 4)))

decodeNextHop(buf, length) ==
    LET r == BufRead(buf, 4)
    IN  IF r.eof \/ r.n # 4 THEN [ok |-> FALSE, value |-> << >>, buf |-> r.buf]
        ELSE dumpRest(r.bytes, dumpNBytes(r.buf, U16(length - 4)))

\* decodeAggregator after the ASN bytes asn: a is the read of the address
decodeAggregatorAddr(asn, a, length) ==
    IF a.eof \/ a.n # 4 THEN [ok |-> FALSE, value |-> << >>, buf |-> a.buf]
    ELSE dumpRest(asn \o a.bytes, dumpNBytes(a.buf, U16(length - 6)))

decodeAggregator(buf, length) ==
    LET r == ReadFull(buf, 2)
    IN  IF ~r.ok THEN [ok |-> FALSE, value |-> << >>, buf |-> r.buf]
        ELSE decodeAggregatorAddr(r.bytes, BufRead(r.buf, 4), length)

\* the ASN loop of one AS path segment
RECURSIVE asnLoop(_, _, _, _, _)
asnLoop(buf, i, count, p, asns) ==
    IF ~(i < count) THEN [ok |-> TRUE, p |-> p, asns |-> asns, buf |-> buf]
    ELSE LET r == ReadFull(buf, 2)
         IN  IF ~r.ok THEN [ok |-> FALSE, p |-> p, asns |-> asns, buf |-> r.buf]
             ELSE asnLoop(r.buf, U8(i + 1), count, U16(p + 2), Append(asns, U16BE(r.bytes)))

\* decodeASPath: the segment loop
RECURSIVE asPathLoop(_, _, _, _)
\* the loop body after the ASNs of the segment were read: a is asnLoop's result
asPathASNs(type, count, a, length, segs) ==
    IF ~a.ok THEN [ok |-> FALSE, value |-> segs, buf |-> a.buf]
    ELSE asPathLoop(a.buf, length, a.p,
                    Append(segs, [Type |-> type, Count |-> count, ASNs |-> a.asns]))

\* the loop body after segment type and count were read into r
asPathSegment(r, length, p, segs) ==
    IF ~r.ok THEN [ok |-> FALSE, value |-> segs, buf |-> r.buf]
    ELSE IF r.bytes[1] # ASSet /\ r.bytes[1] # ASSequence
    THEN [ok |-> FALSE, value |-> segs, buf |-> r.buf]
    ELSE IF r.bytes[2] = 0
    THEN [ok |-> FALSE, value |-> segs, buf |-> r.buf]
    ELSE asPathASNs(r.bytes[1], r.bytes[2],
                    asnLoop(r.buf, 0, r.bytes[2], U16(p + 2), << >>), length, segs)

asPathLoop(buf, length, p, segs) ==
    IF ~(p < length) THEN [ok |-> TRUE, value |-> segs, buf |-> buf]
    ELSE asPathSegment(ReadFull(buf, 2), length, p, segs)

decodeASPath(buf, length) == asPathLoop(buf, length, 0, << >>)

\* decodeOrigin's error is dropped by its caller
originIgnoringErr(r) == [ok |-> TRUE, value |-> r.value, buf |-> r.buf]

\* the value decoder chosen by the switch of decodePathAttrs
decodeAttrValue(buf, typeCode, length) ==
    IF typeCode = OriginAttr THEN originIgnoringErr(decodeOrigin(buf, length))
    ELSE IF typeCode = ASPathAttr THEN decodeASPath(buf, length)
    ELSE IF typeCode = NextHopAttr THEN decodeNextHop(buf, length)
    ELSE IF typeCode = MEDAttr \/ typeCode = LocalPrefAttr THEN decodeUint32(buf, length)
    ELSE IF typeCode = AtomicAggrAttr THEN [ok |-> TRUE, value |-> << >>, buf |-> buf]
    ELSE IF typeCode = AggregatorAttr THEN decodeAggregator(buf, length)
    ELSE [ok |-> FALSE, value |-> << >>, buf |-> buf]

\* decodePathAttrs: ret is the list built so far, p the bytes accounted for
RECURSIVE pathAttrsLoop(_, _, _, _)
\* the loop body after the value was decoded into v
pathAttrsValue(flags, typeCode, l, v, tpal, p, ret) ==
    IF ~v.ok THEN [err |-> PlainError, list |-> << >>, buf |-> v.buf]
    ELSE pathAttrsLoop(v.buf, tpal, U16(p + 2 + l.bytesRead + l.Length),
                       Append(ret, [Length |-> l.Length,
                                    Optional |-> isOptional(flags),
                                    Transitive |-> isTransitive(flags),
                                    Partial |-> isPartial(flags),
                                    ExtendedLength |-> isExtendedLength(flags),
                                    TypeCode |-> typeCode,
                                    Value |-> v.value]))

\* the loop body after setLength returned l
pathAttrsLength(flags, typeCode, l, tpal, p, ret) ==
    IF ~l.ok THEN [err |-> PlainError, list |-> << >>, buf |-> l.buf]
    ELSE pathAttrsValue(flags, typeCode, l, decodeAttrValue(l.buf, typeCode, l.Length),
                        tpal, p, ret)

\* the loop body after the type code byte t was read
pathAttrsType(flags, t, tpal, p, ret) ==
    IF ~t.ok THEN [err |-> PlainError, list |-> << >>, buf |-> t.buf]
    ELSE pathAttrsLength(flags, t.bytes[1], setLength(t.buf, isExtendedLength(flags)),
                         tpal, p, ret)

\* the loop body after the flags byte f was read
pathAttrsFlags(f, tpal, p, ret) ==
    IF ~f.ok THEN [err |-> PlainError, list |-> << >>, buf |-> f.buf]
    ELSE pathAttrsType(f.bytes[1], ReadFull(f.buf, 1), tpal, p, ret)

pathAttrsLoop(buf, tpal, p, ret) ==
    IF ~(p < tpal) THEN [err |-> NoErr, list |-> ret, buf |-> buf]
    ELSE pathAttrsFlags(ReadFull(buf, 1), tpal, p, ret)

decodePathAttrs(buf, tpal) == pathAttrsLoop(buf, tpal, 0, << >>)

NoUpdate ==
    [kind |-> "update", WithdrawnRoutesLen |-> 0, WithdrawnRoutes |-> << >>,
     TotalPathAttrLen |-> 0, PathAttributes |-> << >>, NLRI |-> << >>]

\* decodeUpdateMsg after the NLRI list was decoded into n
decodeUpdateNLRI(m, n) ==
    IF n.err # NoErr THEN [msg |-> m, err |-> n.err, buf |-> n.buf]
    ELSE [msg |-> [m EXCEPT !.NLRI = n.list], err |-> NoErr, buf |-> n.buf]

\* decodeUpdateMsg after the path attributes were decoded into pas
decodeUpdateAttrs(m, pas, nlriLen) ==
    IF pas.err # NoErr THEN [msg |-> m, err |-> pas.err, buf |-> pas.buf]
    ELSE IF nlriLen > 0
    THEN decodeUpdateNLRI([m EXCEPT !.PathAttributes = pas.list],
                          decodeNLRIs(pas.buf, nlriLen))
    ELSE [msg |-> [m EXCEPT !.PathAttributes = pas.list], err |-> NoErr, buf |-> pas.buf]

\* decodeUpdateMsg after the total path attribute length t was read
decodeUpdateTotalLen(m, t, l) ==
    IF ~t.ok THEN [msg |-> m, err |-> PlainError, buf |-> t.buf]
    ELSE decodeUpdateAttrs([m EXCEPT !.TotalPathAttrLen = U16BE(t.bytes)],
                           decodePathAttrs(t.buf, U16BE(t.bytes)),
                           U16(l - 4 - U16BE(t.bytes) - m.WithdrawnRoutesLen))

\* decodeUpdateMsg after the withdrawn routes were decoded into wr
decodeUpdateWithdrawn(m, wr, l) ==
    IF wr.err # NoErr THEN [msg |-> m, err |-> wr.err, buf |-> wr.buf]
    ELSE decodeUpdateTotalLen([m EXCEPT !.WithdrawnRoutes = wr.list],
                              ReadFull(wr.buf, 2), l)

\* decodeUpdateMsg after the withdrawn routes length w was read
decodeUpdateWithdrawnLen(w, l) ==
    IF ~w.ok THEN [msg |-> NoUpdate, err |-> PlainError, buf |-> w.buf]
    ELSE decodeUpdateWithdrawn([NoUpdate EXCEPT !.WithdrawnRoutesLen = U16BE(w.bytes)],
                               decodeNLRIs(w.buf, U16BE(w.bytes)), l)

decodeUpdateMsg(buf, l) == decodeUpdateWithdrawnLen(ReadFull(buf, 2), l)

(***************************************************************************)
(* package packet: Decode                                                  *)
(***************************************************************************)
decodeMsgBody(buf, msgType, l) ==
    IF msgType = OpenMsg THEN decodeOpenMsg(buf)
    ELSE IF msgType = UpdateMsg THEN decodeUpdateMsg(buf, l)
    ELSE IF msgType = KeepaliveMsg THEN [msg |-> NoBody, err |-> NoErr, buf |-> buf]
    ELSE IF msgType = NotificationMsg THEN decodeNotificationMsg(buf)
    ELSE [msg |-> NoBody, err |-> PlainError, buf |-> buf]

\* Decode: the message (nil on failure) and the error returned to the caller
Decode(buf) ==
    LET h == decodeHeader(buf)
    IN  IF h.err # NoErr
        THEN [Header |-> NoHdr, Body |-> NoBody, err |-> Errorf(h.err)]
        ELSE LET b == decodeMsgBody(h.buf, h.hdr.Type, U16(h.hdr.Length - MinLen))
             IN  IF b.err = Panic
                 THEN [Header |-> NoHdr, Body |-> NoBody, err |-> Panic]
                 ELSE IF b.err # NoErr
                 THEN [Header |-> NoHdr, Body |-> NoBody, err |-> Errorf(b.err)]
                 ELSE [Header |-> h.hdr, Body |-> b.msg, err |-> NoErr]

(***************************************************************************)
(* package packet: the encoder.  convert.Uint16Byte writes the two bytes   *)
(* high byte first; the identifier is kept as the four bytes               *)
(* convert.Uint32Byte writes.                                              *)
(***************************************************************************)
Uint16Byte(x) == <<x \div 256, x % 256>>

encodeHeader(length, typ) ==
    [i \in 1 .. MarkerLen |-> 255] \o Uint16Byte(length) \o <<typ>>

EncodeKeepaliveMsg == encodeHeader(19, KeepaliveMsg)

EncodeNotificationMsg(msg) ==
    encodeHeader(21, NotificationMsg) \o <<msg.ErrorCode, msg.ErrorSubcode>>

EncodeOpenMsg(msg) ==
    encodeHeader(29, OpenMsg) \o <<msg.Version>> \o Uint16Byte(msg.AS)
        \o Uint16Byte(msg.HoldTime) \o msg.BGPIdentifier \o <<0>>

\* the encoder entry point for a message of the given type
Encode(typ, msg) ==
    IF typ = KeepaliveMsg THEN EncodeKeepaliveMsg
    ELSE IF typ = NotificationMsg THEN EncodeNotificationMsg(msg)
    ELSE EncodeOpenMsg(msg)

(***************************************************************************)
(* Input sets.                                                             *)
(***************************************************************************)
NoPfx == NewPfx(Zero32, 0)

\* harness addresses: every pattern of the top PfxBits bits, with the lowest
\* address bit clear or set
PfxAddrs == { Addr32(hi, PfxBits, lo) : hi \in 0 .. (2 ^ PfxBits) - 1, lo \in 0 .. 1 }
PfxLens == (0 .. PfxBits + 1) \cup {31, 32}
PfxInputs == { NewPfx(a, l) : a \in PfxAddrs, l \in PfxLens }

\* trie prefixes: every pattern of the top LpmBits bits, every length up to LpmBits + 1
LpmAddrs == { Addr32(hi, LpmBits, 0) : hi \in 0 .. (2 ^ LpmBits) - 1 }
LpmPfxs == { NewPfx(a, l) : a \in LpmAddrs, l \in 0 .. LpmBits + 1 }

\* decoder inputs: a 16-byte marker, two length bytes, a type byte and a body,
\* or a buffer cut short
GoodMarker == [i \in 1 .. MarkerLen |-> 255]
Markers == {GoodMarker} \cup
           { [GoodMarker EXCEPT ![k] = v] : k \in 1 .. MarkerLen, v \in {0, 254} }
LengthBytes == { <<0, 0>>, <<0, 18>>, <<0, 19>>, <<0, 21>>, <<0, 29>>,
                 <<16, 0>>, <<16, 1>>, <<255, 255>> }
OpenBody(version, id) == <<version, 0, 1, 0, 15>> \o id \o <<0>>
Bodies == { << >>,
            OpenBody(4, <<10, 0, 0, 1>>),
            OpenBody(3, <<10, 0, 0, 1>>),
            OpenBody(4, <<127, 0, 0, 1>>),
            OpenBody(4, <<0, 0, 10, 11>>),
            <<4, 0, 1>>,
            <<6, 0>>,
            <<6, 1>>,
            <<0, 0, 0, 0>> }
\* OPEN bodies handed to the body decoders: versions 4 and 3 with
\* identifiers of every class, two-byte fields with both bytes set, and
\* bodies cut short
OpenIds == { <<10, 11, 12, 13>>, <<0, 0, 10, 11>>, <<127, 0, 0, 1>>, <<224, 0, 0, 5>>,
             <<239, 255, 255, 255>>, <<255, 255, 255, 255>>, <<255, 255, 255, 254>>,
             <<1, 0, 0, 0>>, <<223, 255, 255, 255>>, <<240, 0, 0, 1>> }
OpenBodies ==
    { <<v, 1, 1, h[1], h[2]>> \o id \o <<o>> :
        v \in {3, 4, 5}, h \in {<<0, 15>>, <<1, 2>>}, id \in OpenIds, o \in {0, 2} }
    \cup { <<4, 1, 1>>, << >> }

ShortBufs == { Take(GoodMarker, n) : n \in {0, 10, 16} } \cup
             { GoodMarker \o <<0>>, GoodMarker \o <<0, 19>>,
               [GoodMarker EXCEPT ![3] = 2] \o <<0, 19>> }
DecInputs == { m \o l \o <<t>> \o b :
                 m \in Markers, l \in LengthBytes, t \in 0 .. MaxMsgType, b \in Bodies }
             \cup ShortBufs

(***************************************************************************)
(* Component states in which nothing has happened.                         *)
(***************************************************************************)
NoPRes == [b |-> FALSE, pfx |-> NoPfx, i |-> 0]

PfxIdle ==
    /\ pa = NoPfx /\ pb = NoPfx /\ pOp = "none" /\ pRes = NoPRes

LpmIdle ==
    /\ root = Nil /\ inserted = {} /\ removed = {} /\ nInserts = 0
    /\ qOp = "none" /\ qNeedle = NoPfx /\ qRes = << >>

NoDRes == [Header |-> NoHdr, Body |-> NoBody, err |-> NoErr]

DecIdle ==
    /\ dBuf = << >> /\ dOp = "none" /\ dRes = NoDRes

(***************************************************************************)
(* package server: the peer FSM                                            *)
(***************************************************************************)
\* administrative events
ManualStart == 1
ManualStop == 2
AutomaticStart == 3
AutomaticStop == 8

\* states
Cease == 0
Idle == 1
Connect == 2
Active == 3
OpenSent == 4
OpenConfirm == 5
Established == 6

\* configuration of the peer (config.Peer)
routerID == <<10, 0, 0, 2>>
holdTimeConfigured == 90
keepaliveTimeConfigured == 30
passive == TRUE

\* a > b on uint32 values kept as their four bytes, first byte first
RECURSIVE IdGreaterFrom(_, _, _)
IdGreaterFrom(a, b, i) ==
    IF i > 4 THEN FALSE
    ELSE IF a[i] # b[i] THEN a[i] > b[i]
    ELSE IdGreaterFrom(a, b, i + 1)

IdGreater(a, b) == IdGreaterFrom(a, b, 1)

(***************************************************************************)
(* time.Timer.  Only the FSM looks at its timers, so the expiry of a timer  *)
(* shows when the FSM receives from C or calls Reset.  armed: the runtime   *)
(* sends on C when the duration has passed, or has sent unnoticed; pending: *)
(* a value is known to wait in C (a channel of capacity 1).                 *)
(***************************************************************************)
NewTimer == [armed |-> TRUE, pending |-> FALSE]
\* time.NewTimer(0) once its duration has passed; an armed timer once it has
\* sent on C
ExpiredTimer == [armed |-> FALSE, pending |-> TRUE]
TimerFire(t) == IF t.armed THEN ExpiredTimer ELSE t
\* a receive from C can complete
TimerReady(t) == t.armed \/ t.pending
\* the receive takes the waiting value, or else the value of the expiry
TimerRecv(t) ==
    IF t.pending THEN [t EXCEPT !.pending = FALSE]
    ELSE [armed |-> FALSE, pending |-> FALSE]
\* Reset without a drain: a value already in C stays there
TimerReset(t) == [t EXCEPT !.armed = TRUE]

\* stopTimer: Stop, and a non-blocking drain when Stop reports false
stopTimer(t) ==
    IF t.armed THEN [t EXCEPT !.armed = FALSE]
    ELSE [armed |-> FALSE, pending |-> FALSE]

\* resetConnectRetryTimer: Reset, and a blocking receive from C when Reset
\* reports false; the receive takes the waiting value, or else waits for the
\* expiry of the timer just reset
resetTimerAndDrain(t) ==
    IF t.armed THEN t
    ELSE IF t.pending THEN [armed |-> TRUE, pending |-> FALSE]
    ELSE [armed |-> FALSE, pending |-> FALSE]

(***************************************************************************)
(* TCP connections.  A connection is named by its index in conns.          *)
(***************************************************************************)
NoCon == 0
NewCon(isPassiveCon) == [passive |-> isPassiveCon, closed |-> FALSE, broken |-> FALSE]

\* neither closed here nor broken by the peer
Live(cs, c) == c # NoCon /\ ~cs[c].closed /\ ~cs[c].broken

\* the callee's view of a step of FSM.main: the struct, the connections, the
\* messages written, the receivers started, the error of the last write and
\* how the step ends.  breaks: the connections the peer has broken by now
\* (a write on one of them fails); fired: the timers that expired unnoticed
World(f, cs) ==
    [fsm |-> f, conns |-> cs, writes |-> << >>, spawn |-> {},
     ret |-> FALSE, panic |-> FALSE, tcp |-> FALSE, err |-> FALSE,
     breaks |-> {}, fired |-> {}]

\* c.Write: fails on a nil, closed or broken connection
WriteMsg(w, c, m) ==
    IF c # NoCon /\ c \in w.breaks /\ ~w.conns[c].closed
    THEN [w EXCEPT !.conns[c].broken = TRUE, !.err = TRUE]
    ELSE IF Live(w.conns, c)
    THEN [w EXCEPT !.writes = Append(@, [con |-> c, msg |-> m]), !.err = FALSE]
    ELSE [w EXCEPT !.err = TRUE]

\* c.Close()
CloseCon(w, c) ==
    IF c = NoCon THEN w
    ELSE [w EXCEPT !.conns[c] = [@ EXCEPT !.closed = TRUE, !.broken = FALSE]]

disconnect(w) ==
    [CloseCon(CloseCon(w, w.fsm.con), w.fsm.con2) EXCEPT !.fsm.con = NoCon,
                                                         !.fsm.con2 = NoCon]

changeState(w, new) ==
    [w EXCEPT !.fsm.lastState = w.fsm.state, !.fsm.state = new, !.ret = TRUE]

stopConnectRetryTimer(w) ==
    [w EXCEPT !.fsm.connectRetryTimer = stopTimer(@)]

resetConnectRetryTimer(w) ==
    [w EXCEPT !.fsm.connectRetryTimer = resetTimerAndDrain(@)]

startConnectRetryTimer(w) ==
    [w EXCEPT !.fsm.connectRetryTimer = NewTimer]

incConnectRetryCounter(w) ==
    [w EXCEPT !.fsm.connectRetryCounter = @ + 1]

zeroConnectRetryCounter(w) ==
    [w EXCEPT !.fsm.connectRetryCounter = 0]

\* tcpConnect: the send on initiateCon, completed by TcpConnectReceived
tcpConnect(w) == [w EXCEPT !.tcp = TRUE]

\* sendNotification: the message serialized is an empty BGPNotification
EmptyNotification == [type |-> NotificationMsg, code |-> 0, sub |-> 0]

sendNotification(w, c, errorCode, errorSubCode) ==
    IF c = NoCon THEN w
    ELSE WriteMsg(w, c, EmptyNotification)

\* sendOpen / sendKeepalive: err of the result is TRUE when the write failed
OpenWritten == [type |-> OpenMsg, code |-> 0, sub |-> 0]
KeepaliveWritten == [type |-> KeepaliveMsg, code |-> 0, sub |-> 0]

sendOpen(w, c) == WriteMsg(w, c, OpenWritten)
sendKeepalive(w) == WriteMsg(w, w.fsm.con, KeepaliveWritten)

(***************************************************************************)
(* Connection collision                                                    *)
(***************************************************************************)
ConnectionCollisionResolution == 7

isPassive(cs, c) == cs[c].passive

\* dumpCon(c): a NOTIFICATION, then Close
dumpCon(w, c) ==
    CloseCon(sendNotification(w, c, PktCease, ConnectionCollisionResolution), c)

\* FSM.dumpCon: whether c is the connection collision resolution discards
fsmDumpCon(w, c) ==
    IF IdGreater(routerID, w.fsm.neighborID)
    THEN isPassive(w.conns, c)
    ELSE ~isPassive(w.conns, c)

\* the mutant keeps the passive connection when the local id is the greater
resolveCollisionKeepPassive(w) ==
    IF w.fsm.con2 = NoCon THEN w
    ELSE IF ~isPassive(w.conns, w.fsm.con)
    THEN [dumpCon(w, w.fsm.con) EXCEPT !.fsm.con = w.fsm.con2]
    ELSE IF ~isPassive(w.conns, w.fsm.con2)
    THEN [CloseCon(dumpCon(w, w.fsm.con2), w.fsm.con2) EXCEPT !.fsm.con2 = NoCon]
    ELSE w

resolveCollision(w) ==
    IF w.fsm.con2 = NoCon THEN w
    ELSE IF IdGreater(routerID, w.fsm.neighborID)
    THEN \* terminate the passive connection
         IF isPassive(w.conns, w.fsm.con)
         THEN [dumpCon(w, w.fsm.con) EXCEPT !.fsm.con = w.fsm.con2]
         ELSE IF isPassive(w.conns, w.fsm.con2)
         THEN dumpCon(w, w.fsm.con2)
         ELSE w
    ELSE \* terminate the active connection
         IF ~isPassive(w.conns, w.fsm.con)
         THEN [dumpCon(w, w.fsm.con) EXCEPT !.fsm.con = w.fsm.con2]
         ELSE IF ~isPassive(w.conns, w.fsm.con2)
         THEN [CloseCon(dumpCon(w, w.fsm.con2), w.fsm.con2) EXCEPT !.fsm.con2 = NoCon]
         ELSE w

(***************************************************************************)
(* Branches shared by the state functions                                  *)
(***************************************************************************)
\* the type switch on packet.BGPError after a failed Decode, both connections
notifyBoth(w, err) ==
    IF err.kind = "BGPError"
    THEN sendNotification(sendNotification(w, w.fsm.con, err.code, err.sub),
                          w.fsm.con2, err.code, err.sub)
    ELSE w

\* stop the retry timer, disconnect, count the failure, go to Idle
failToIdle(w) ==
    changeState(incConnectRetryCounter(disconnect(stopConnectRetryTimer(w))), Idle)

\* the default case of the message switch: "FSM Error"
fsmError(w) ==
    changeState(incConnectRetryCounter(CloseCon(stopConnectRetryTimer(
        sendNotification(w, w.fsm.con, FiniteStateMachineError, 0)), w.fsm.con)), Idle)

\* ManualStop in OpenSent and OpenConfirm
manualStopDisconnect(w) ==
    changeState(zeroConnectRetryCounter(disconnect(stopConnectRetryTimer(
        sendNotification(w, w.fsm.con, PktCease, 0)))), Idle)

\* the eventCh case of OpenSent and OpenConfirm
stopEvent(w, e) == IF e = ManualStop THEN manualStopDisconnect(w) ELSE w

\* the hold timer case of OpenSent and OpenConfirm
holdTimerDisconnect(w) ==
    failToIdle(sendNotification(w, w.fsm.con, HoldTimeExpired, 0))

\* a connection arriving in OpenSent or OpenConfirm
secondConOpened(s, c) ==
    IF s.err THEN CloseCon(s, c)
    ELSE [s EXCEPT !.fsm.con2 = c, !.spawn = @ \cup {c}]

\* the mutant puts a third connection in the place of the second
secondConReplace(w, c) ==
    IF w.fsm.con2 # NoCon THEN [CloseCon(w, w.fsm.con2) EXCEPT !.fsm.con2 = c]
    ELSE secondConOpened(sendOpen(w, c), c)

secondCon(w, c) ==
    IF w.fsm.con2 # NoCon THEN CloseCon(w, c)
    ELSE secondConOpened(sendOpen(w, c), c)

openSentTCPFail(w) ==
    changeState(resetConnectRetryTimer(CloseCon(w, w.fsm.con)), Active)

openConfirmTCPFail(w) ==
    changeState(incConnectRetryCounter(resetConnectRetryTimer(CloseCon(w, w.fsm.con))), Idle)

\* the msgRecvFailCh case up to its last statement: handled is FALSE when
\* neither slot test matched
recvFailSlots(w, c) ==
    IF c = w.fsm.con /\ w.fsm.con2 # NoCon
    THEN [CloseCon(w, w.fsm.con) EXCEPT !.fsm.con = w.fsm.con2, !.fsm.con2 = NoCon]
    ELSE [CloseCon(w, w.fsm.con2) EXCEPT !.fsm.con2 = NoCon]

recvFailHandled(w, c) ==
    (c = w.fsm.con /\ w.fsm.con2 # NoCon) \/ c = w.fsm.con2

(***************************************************************************)
(* FSM.idle, FSM.connect, FSM.active                                       *)
(***************************************************************************)
idleEvent(w, e) ==
    IF e = ManualStart \/ e = AutomaticStart
    THEN IF passive
         THEN changeState(startConnectRetryTimer(zeroConnectRetryCounter(w)), Active)
         ELSE tcpConnect(startConnectRetryTimer(zeroConnectRetryCounter(w)))
    ELSE w

connectEvent(w, e) ==
    IF e = ManualStop
    THEN changeState(stopConnectRetryTimer(zeroConnectRetryCounter(w)), Idle)
    ELSE w

\* s is the callee's view after sendOpen
connectOpenSent(s) ==
    IF s.err
    THEN changeState(stopConnectRetryTimer(s), Idle)
    ELSE changeState([s EXCEPT !.fsm.holdTimer = NewTimer], OpenSent)

\* the mutant does not look at the error of sendOpen
connectSendOpenUnchecked(w) ==
    changeState([sendOpen(w, w.fsm.con) EXCEPT !.fsm.holdTimer = NewTimer], OpenSent)

connectSendOpen(w) == connectOpenSent(sendOpen(w, w.fsm.con))

activeEvent(w, e) ==
    IF e = ManualStop
    THEN changeState(stopConnectRetryTimer(zeroConnectRetryCounter(disconnect(w))), Active)
    ELSE w

activeOpenSent(s) ==
    IF s.err
    THEN changeState(incConnectRetryCounter(resetConnectRetryTimer(s)), Idle)
    ELSE changeState([s EXCEPT !.fsm.holdTimer = NewTimer], OpenSent)

activeSendOpen(w) == activeOpenSent(sendOpen(w, w.fsm.con))

\* the conCh case of connect and active
acceptCon(w, c) == stopConnectRetryTimer([w EXCEPT !.fsm.con = c])

(***************************************************************************)
(* FSM.openSent                                                            *)
(***************************************************************************)
\* the two-connection form of a failed Decode (OpenSent and OpenConfirm)
decodeFailDisconnect(w, err) == failToIdle(notifyBoth(w, err))

openSentNotification(w, c, nMsg) ==
    IF nMsg.ErrorCode = UnsupportedVersionNumber
    THEN changeState(disconnect(stopConnectRetryTimer(w)), Idle)
    ELSE IF nMsg.ErrorCode = PktCease /\ fsmDumpCon(w, c)
    THEN w
    ELSE failToIdle(w)

\* the mutant takes the hold time of the OPEN without the division by 3
negotiateHoldTimeNoDiv(w, t) ==
    IF t # 0
    THEN [w EXCEPT !.fsm.holdTime = t,
                   !.fsm.holdTimer = TimerReset(@),
                   !.fsm.keepaliveTime = t,
                   !.fsm.keepaliveTimer = TimerReset(@)]
    ELSE [w EXCEPT !.fsm.holdTime = 0]

\* the negotiated hold time and the timers that follow from it
negotiateHoldTime(w, t) ==
    IF t # 0
    THEN [w EXCEPT !.fsm.holdTime = t,
                   !.fsm.holdTimer = TimerReset(@),
                   !.fsm.keepaliveTime = t \div 3,
                   !.fsm.keepaliveTimer = TimerReset(@)]
    ELSE [w EXCEPT !.fsm.holdTime = 0]

\* the OPEN case after sendKeepalive
openSentKeepalive(s, openMsg) ==
    IF s.err THEN openSentTCPFail(s)
    ELSE changeState(negotiateHoldTime(s, min(holdTimeConfigured, openMsg.HoldTime)),
                     OpenConfirm)

openSentOpen(w, openMsg) ==
    openSentKeepalive(
        sendKeepalive(stopConnectRetryTimer(
            resolveCollision([w EXCEPT !.fsm.neighborID = openMsg.BGPIdentifier]))),
        openMsg)

\* the msgRecvCh case: d is the result of packet.Decode
openSentMsg(w, c, d) ==
    IF d.err = Panic THEN [w EXCEPT !.panic = TRUE]
    ELSE IF d.err # NoErr THEN decodeFailDisconnect(w, d.err)
    ELSE IF d.Header.Type = NotificationMsg THEN openSentNotification(w, c, d.Body)
    ELSE IF d.Header.Type = OpenMsg THEN openSentOpen(w, d.Body)
    ELSE fsmError(w)

openSentRecvFail(w, c) ==
    IF recvFailHandled(w, c) THEN recvFailSlots(w, c) ELSE openSentTCPFail(w)

(***************************************************************************)
(* FSM.openConfirm                                                         *)
(***************************************************************************)
\* s is the callee's view after sendKeepalive
openConfirmKeepaliveSent(s) ==
    IF s.err THEN failToIdle(s)
    ELSE [s EXCEPT !.fsm.keepaliveTimer = TimerReset(@)]

openConfirmKeepaliveTimer(w) == openConfirmKeepaliveSent(sendKeepalive(w))

\* the NOTIFICATION case asserts msg.Body to be a BGPNotification value; the
\* decoder stores a *BGPNotification, so the assertion panics
openConfirmMsg(w, c, d) ==
    IF d.err = Panic THEN [w EXCEPT !.panic = TRUE]
    ELSE IF d.err # NoErr THEN decodeFailDisconnect(w, d.err)
    ELSE IF d.Header.Type = NotificationMsg THEN [w EXCEPT !.panic = TRUE]
    ELSE IF d.Header.Type = KeepaliveMsg
    THEN changeState([w EXCEPT !.fsm.holdTimer = TimerReset(@)], Established)
    ELSE IF d.Header.Type = OpenMsg
    THEN resolveCollision([w EXCEPT !.fsm.neighborID = d.Body.BGPIdentifier])
    ELSE fsmError(w)

openConfirmRecvFail(w, c) ==
    IF recvFailHandled(w, c) THEN recvFailSlots(w, c) ELSE openConfirmTCPFail(w)

(***************************************************************************)
(* FSM.established                                                         *)
(***************************************************************************)
\* convert.Uint32b: four bytes, first byte most significant, as a uint32
Uint32b(x) ==
    [i \in 1 .. 32 |-> (x[((i - 1) \div 8) + 1] \div (2 ^ (7 - ((i - 1) % 8)))) % 2]

\* the prefix of one NLRI entry
nlriPfx(r) == NewPfx(Uint32b(r.IP), r.Pfxlen)

\* LPM.Remove: the node that holds pfx becomes a dummy
RECURSIVE remove(_, _)
remove(p, pfx) ==
    IF p = Nil THEN Nil
    ELSE IF p[1].pfx = pfx THEN <<[p[1] EXCEPT !.dummy = TRUE]>>
    ELSE IF p[1].pfx.pfxlen > pfx.pfxlen THEN p
    ELSE IF ~getBitUint32(pfx.addr, U8(p[1].pfx.pfxlen + 1))
    THEN <<[p[1] EXCEPT !.l = remove(p[1].l, pfx)]>>
    ELSE <<[p[1] EXCEPT !.h = remove(p[1].h, pfx)]>>

\* lpm.New() and the nil *LPM
NewLPM == [alloc |-> TRUE, root |-> Nil]
NilLPM == [alloc |-> FALSE, root |-> Nil]

\* the two loops of the UPDATE case: i is the index of the next list entry
RECURSIVE removeAll(_, _, _)
removeAll(rib, list, i) ==
    IF i > Len(list) THEN rib
    ELSE removeAll([rib EXCEPT !.root = remove(@, nlriPfx(list[i]))], list, i + 1)

RECURSIVE insertAll(_, _, _)
insertAll(rib, list, i) ==
    IF i > Len(list) THEN rib
    ELSE insertAll([rib EXCEPT !.root = InsertRoot(@, nlriPfx(list[i]))], list, i + 1)

resetHoldTimer(w) ==
    IF w.fsm.holdTime # 0 THEN [w EXCEPT !.fsm.holdTimer = TimerReset(@)] ELSE w

establishedUpdate(w, u) ==
    [resetHoldTimer(w) EXCEPT
        !.fsm.adjRibIn = insertAll(removeAll(@, u.WithdrawnRoutes, 1), u.NLRI, 1)]

\* stop the retry timer, close the primary connection, count, go to Idle
closeToIdle(w) ==
    changeState(incConnectRetryCounter(CloseCon(stopConnectRetryTimer(w), w.fsm.con)), Idle)

establishedEvent(w, e) ==
    IF e = ManualStop
    THEN changeState(zeroConnectRetryCounter(CloseCon(stopConnectRetryTimer(
             sendNotification(w, w.fsm.con, PktCease, 0)), w.fsm.con)), Idle)
    ELSE IF e = AutomaticStop
    THEN closeToIdle(sendNotification(w, w.fsm.con, PktCease, 0))
    ELSE w

establishedHoldTimer(w) ==
    closeToIdle(sendNotification(w, w.fsm.con, HoldTimeExpired, 0))

establishedKeepaliveSent(s) ==
    IF s.err THEN closeToIdle(s)
    ELSE [s EXCEPT !.fsm.keepaliveTimer = TimerReset(@)]

establishedKeepaliveTimer(w) == establishedKeepaliveSent(sendKeepalive(w))

\* the type switch on packet.BGPError after a failed Decode, primary only
establishedDecodeFail(w, err) ==
    closeToIdle(IF err.kind = "BGPError"
                THEN sendNotification(w, w.fsm.con, err.code, err.sub)
                ELSE w)

establishedOpen(w) ==
    IF w.fsm.con2 # NoCon
    THEN [CloseCon(sendNotification(w, w.fsm.con2, PktCease, ConnectionCollisionResolution),
                   w.fsm.con2) EXCEPT !.fsm.con2 = NoCon]
    ELSE fsmError(w)

establishedMsg(w, d) ==
    IF d.err = Panic THEN [w EXCEPT !.panic = TRUE]
    ELSE IF d.err # NoErr THEN establishedDecodeFail(w, d.err)
    ELSE IF d.Header.Type = NotificationMsg THEN closeToIdle(w)
    ELSE IF d.Header.Type = UpdateMsg THEN establishedUpdate(w, d.Body)
    ELSE IF d.Header.Type = KeepaliveMsg THEN resetHoldTimer(w)
    ELSE IF d.Header.Type = OpenMsg THEN establishedOpen(w)
    ELSE fsmError(w)

(***************************************************************************)
(* What the peer sends: whole messages, as recvMsg hands them on.          *)
(***************************************************************************)
PeerIds == { <<10, 0, 0, 1>>, <<10, 0, 0, 2>>, <<10, 0, 0, 3>> }
KeepaliveBytes == GoodMarker \o <<0, 19, KeepaliveMsg>>
OpenBytes(version, id) == GoodMarker \o <<0, 29, OpenMsg>> \o OpenBody(version, id)
NotificationBytes(c, sc) == GoodMarker \o <<0, 21, NotificationMsg, c, sc>>
\* an UPDATE announcing 10.0.0.0/8 and one withdrawing it
AnnounceBytes == GoodMarker \o <<0, 25, UpdateMsg>> \o <<0, 0, 0, 0, 8, 10>>
WithdrawBytes == GoodMarker \o <<0, 25, UpdateMsg>> \o <<0, 2, 8, 10, 0, 0>>
\* an UPDATE that withdraws 10.0.0.0/8 and announces it
ReplaceBytes == GoodMarker \o <<0, 27, UpdateMsg>> \o <<0, 2, 8, 10, 0, 0, 8, 10>>
BadMarkerBytes == [KeepaliveBytes EXCEPT ![1] = 0]
\* an OPEN with hold time 0
OpenNoHoldBytes ==
    GoodMarker \o <<0, 29, OpenMsg>> \o <<BGP4Version, 0, 1, 0, 0, 10, 0, 0, 1, 0>>
PeerMsgs ==
    { KeepaliveBytes, AnnounceBytes, WithdrawBytes, ReplaceBytes, BadMarkerBytes,
      NotificationBytes(PktCease, 0), OpenNoHoldBytes }
    \cup { OpenBytes(BGP4Version, id) : id \in PeerIds }

\* each message with what packet.Decode makes of it, the first statement of
\* every msgRecvCh case
DecodedPeerMsgs == { [bytes |-> m, msg |-> Decode(m)] : m \in PeerMsgs }

\* the messages the peer of this run sends
SentMsgs == { p \in DecodedPeerMsgs : p.bytes \in peer.msgs }

\* a peer that sends every message of PeerMsgs, and one that opens one
\* connection more and sends an OPEN and KEEPALIVEs only
AnyPeer == [cons |-> MaxCons, msgs |-> PeerMsgs]
CollidingPeer ==
    [cons |-> MaxCons + 1, msgs |-> {OpenBytes(BGP4Version, <<10, 0, 0, 1>>), KeepaliveBytes}]

\* the events callers send on eventCh besides Stop's ManualStop
ExtEvents == {ManualStart, AutomaticStart, AutomaticStop}

(***************************************************************************)
(* The state after NewFSM and start.                                       *)
(***************************************************************************)
NewFSM ==
    [state |-> Idle, lastState |-> 0, con |-> NoCon, con2 |-> NoCon,
     neighborID |-> <<0, 0, 0, 0>>, connectRetryCounter |-> 0,
     holdTime |-> 0, keepaliveTime |-> keepaliveTimeConfigured,
     connectRetryTimer |-> NewTimer, holdTimer |-> ExpiredTimer,
     keepaliveTimer |-> ExpiredTimer, adjRibIn |-> NilLPM]

NoRcv == "none"

FsmStarted ==
    /\ fsm = NewFSM /\ mainPc = "select" /\ conns = << >> /\ rcv = << >>
    /\ tc = "select" /\ stopPc = "idle" /\ dying = FALSE /\ lastWrite = << >>

FsmIdle == FsmStarted /\ peer = AnyPeer

(***************************************************************************)
(* FSM.main: one action per case of the select of each state function.     *)
(* The channels are unbuffered: a send and its receive are one step, and   *)
(* what the sender hands over is chosen in that step.                      *)
(***************************************************************************)
\* the process has not panicked
Alive == mainPc # "panic"

MainAt(s) == mainPc = "select" /\ fsm.state = s

\* the mutant leaves adjRibIn as it is when idle is entered
EnterKeepRib(w) ==
    IF ~w.ret THEN w
    ELSE IF w.fsm.state = OpenSent THEN [w EXCEPT !.spawn = @ \cup {w.fsm.con}]
    ELSE IF w.fsm.state = Established THEN [w EXCEPT !.fsm.adjRibIn = NewLPM]
    ELSE w

\* what the state function entered by a return does before its loop
Enter(w) ==
    IF ~w.ret THEN w
    ELSE IF w.fsm.state = Idle THEN [w EXCEPT !.fsm.adjRibIn = NilLPM]
    ELSE IF w.fsm.state = OpenSent THEN [w EXCEPT !.spawn = @ \cup {w.fsm.con}]
    ELSE IF w.fsm.state = Established THEN [w EXCEPT !.fsm.adjRibIn = NewLPM]
    ELSE w

\* an expiry the step did not look at is still to be noticed
SettledTimer(e, name) ==
    IF name \in e.fired /\ e.fsm[name] = ExpiredTimer THEN fsm[name] ELSE e.fsm[name]

\* the receivers whose connection the step closed or found broken while they
\* were in recvMsg: each may have read one more message before that
JustDead(e, r) ==
    { c \in DOMAIN conns : r[c] = "recv" /\ Live(conns, c) /\ ~Live(e.conns, c) }

\* FSM.msgReceiver after the step: recvMsg fails on a closed or broken
\* connection, and the receiver goes on to its send on msgRecvFailCh
RcvAfter(e, r, held, c) ==
    IF c \in e.spawn THEN "recv"
    ELSE IF r[c] # "recv" \/ Live(e.conns, c) THEN r[c]
    ELSE IF c \in held THEN "sendMsg"
    ELSE "sendFail"

\* the end of a step of main: e is the callee's view after Enter, r the
\* receivers after the channel operation of the step
CommitEntered(e, r, kill) ==
    /\ fsm' = [e.fsm EXCEPT !.holdTimer = SettledTimer(e, "holdTimer"),
                            !.keepaliveTimer = SettledTimer(e, "keepaliveTimer")]
    /\ conns' = e.conns
    /\ lastWrite' = e.writes
    /\ \E held \in SUBSET JustDead(e, r) :
         rcv' = [c \in DOMAIN r |-> RcvAfter(e, r, held, c)]
    /\ mainPc' = IF e.panic THEN "panic"
                 ELSE IF e.tcp THEN "tcpConnect"
                 ELSE IF e.ret /\ e.fsm.state = Cease THEN "done"
                 ELSE "select"
    /\ dying' = (dying \/ kill \/ (e.ret /\ e.fsm.state = Cease))
    /\ stopPc' = IF kill THEN "wait"
                 ELSE IF stopPc = "wait" /\ tc = "done" /\ e.ret /\ e.fsm.state = Cease
                 THEN "done"
                 ELSE stopPc

\* a step of main that does not receive from Stop
Commit(w, r) == CommitEntered(Enter(w), r, FALSE)

\* the senders on eventCh: Stop with ManualStop, other callers (activate
\* sends ManualStart) with the events of ExtEvents
EventOffers ==
    (IF stopPc = "idle" THEN {<<"Stop", ManualStop>>} ELSE {})
    \cup { <<"caller", e>> : e \in ExtEvents }
OfferedEvent(src) == src[2]
\* the receive from eventCh lets Stop go on to t.Kill(nil) and t.Wait()
CommitEvent(w, src) == CommitEntered(Enter(w), rcv, src[1] = "Stop")

\* the senders on conCh: the listener with a connection accepted on port
\* 179, tcpConnector with the connection it dialled
ConOffers ==
    IF Len(conns) < peer.cons
    THEN {"listener"} \cup (IF tc = "busy" THEN {"connector"} ELSE {})
    ELSE {}
OfferedCon == Len(conns) + 1
\* after its send on conCh tcpConnector continues its loop
TakeCon(src) == tc' = IF src = "connector" THEN "select" ELSE tc
WithCon(src) == Append(conns, NewCon(src = "listener"))
RcvWithCon == Append(rcv, NoRcv)

\* the receivers that can send on msgRecvCh (one blocked in the send, or one
\* whose recvMsg returns a message now) and those blocked on msgRecvFailCh
MsgOffers ==
    { c \in DOMAIN rcv : rcv[c] = "sendMsg" \/ (rcv[c] = "recv" /\ Live(conns, c)) }
FailOffers == { c \in DOMAIN rcv : rcv[c] = "sendFail" }
\* after its send on msgRecvCh the receiver reads the next message
AfterMsg(c) == [rcv EXCEPT ![c] = "recv"]
\* after its send on msgRecvFailCh the receiver returns
AfterFail(c) == [rcv EXCEPT ![c] = "done"]

\* the connections a step can write to that the peer may have broken
BreakSets(cs, cands) == SUBSET { c \in cands : Live(cs, c) }
Slots == {fsm.con, fsm.con2}
\* the timers whose Reset leaves a value in C when they have expired
FireSets(names) == SUBSET { name \in names : fsm[name].armed }
Fire(f, names) ==
    [f EXCEPT !.holdTimer = IF "holdTimer" \in names THEN TimerFire(@) ELSE @,
              !.keepaliveTimer = IF "keepaliveTimer" \in names THEN TimerFire(@) ELSE @]

W == World(fsm, conns)
WBreaks(b) == [World(fsm, conns) EXCEPT !.breaks = b]
WFired(b, names) == [World(Fire(fsm, names), conns) EXCEPT !.breaks = b, !.fired = names]
WTimer(name, b) == [World([fsm EXCEPT ![name] = TimerRecv(@)], conns) EXCEPT !.breaks = b]
WCon(src, b) == [World(fsm, WithCon(src)) EXCEPT !.breaks = b]

IdleConn ==
    /\ MainAt(Idle)
    /\ \E src \in ConOffers :
         /\ Commit(CloseCon(WCon(src, {}), OfferedCon), RcvWithCon)
         /\ TakeCon(src)

IdleEvent ==
    /\ MainAt(Idle)
    /\ \E src \in EventOffers :
         CommitEvent(idleEvent(W, OfferedEvent(src)), src)
    /\ UNCHANGED tc

ConnectEvent ==
    /\ MainAt(Connect)
    /\ \E src \in EventOffers :
         CommitEvent(connectEvent(W, OfferedEvent(src)), src)
    /\ UNCHANGED tc

ConnectConn ==
    /\ MainAt(Connect)
    /\ \E src \in ConOffers : \E b \in BreakSets(WithCon(src), {OfferedCon}) :
         /\ Commit(connectSendOpen(acceptCon(WCon(src, b), OfferedCon)), RcvWithCon)
         /\ TakeCon(src)

ActiveEvent ==
    /\ MainAt(Active)
    /\ \E src \in EventOffers :
         CommitEvent(activeEvent(W, OfferedEvent(src)), src)
    /\ UNCHANGED tc

\* case <-fsm.connectRetryTimer.C of connect and of active: the same two
\* calls; what follows the send of tcpConnect is in TcpConnectReceived
RetryTimer ==
    /\ (MainAt(Connect) \/ MainAt(Active))
    /\ TimerReady(fsm.connectRetryTimer)
    /\ Commit(tcpConnect(resetConnectRetryTimer(WTimer("connectRetryTimer", {}))), rcv)
    /\ UNCHANGED tc

ActiveConn ==
    /\ MainAt(Active)
    /\ \E src \in ConOffers : \E b \in BreakSets(WithCon(src), {OfferedCon}) :
         /\ Commit(activeSendOpen(acceptCon(WCon(src, b), OfferedCon)), RcvWithCon)
         /\ TakeCon(src)

\* the send on initiateCon is received by tcpConnector, which goes on to
\* net.DialTCP; the caller goes on: idle and active return
\* changeState(Connect), connect continues its loop
TcpConnectReceived ==
    /\ Alive /\ mainPc = "tcpConnect" /\ tc = "select"
    /\ tc' = "busy"
    /\ mainPc' = "select"
    /\ fsm' = IF fsm.state = Connect THEN fsm
              ELSE [fsm EXCEPT !.lastState = fsm.state, !.state = Connect]
    /\ UNCHANGED <<conns, rcv, stopPc, dying>>
    /\ lastWrite' = << >>

OpenSentEvent ==
    /\ MainAt(OpenSent)
    /\ \E src \in EventOffers, b \in BreakSets(conns, Slots) :
         CommitEvent(stopEvent(WBreaks(b), OfferedEvent(src)), src)
    /\ UNCHANGED tc

OpenSentHoldTimer ==
    /\ MainAt(OpenSent)
    /\ TimerReady(fsm.holdTimer)
    /\ \E b \in BreakSets(conns, Slots) :
         Commit(holdTimerDisconnect(WTimer("holdTimer", b)), rcv)
    /\ UNCHANGED tc

OpenSentConn ==
    /\ MainAt(OpenSent)
    /\ \E src \in ConOffers : \E b \in BreakSets(WithCon(src), {OfferedCon}) :
         /\ Commit(secondCon(WCon(src, b), OfferedCon), RcvWithCon)
         /\ TakeCon(src)

OpenSentRecvMsg ==
    /\ MainAt(OpenSent)
    /\ \E c \in MsgOffers, p \in SentMsgs, b \in BreakSets(conns, Slots),
          names \in FireSets({"holdTimer", "keepaliveTimer"}) :
         Commit(openSentMsg(WFired(b, names), c, p.msg), AfterMsg(c))
    /\ UNCHANGED tc

OpenSentRecvFail ==
    /\ MainAt(OpenSent)
    /\ \E c \in FailOffers : Commit(openSentRecvFail(W, c), AfterFail(c))
    /\ UNCHANGED tc

OpenConfirmEvent ==
    /\ MainAt(OpenConfirm)
    /\ \E src \in EventOffers, b \in BreakSets(conns, Slots) :
         CommitEvent(stopEvent(WBreaks(b), OfferedEvent(src)), src)
    /\ UNCHANGED tc

OpenConfirmHoldTimer ==
    /\ MainAt(OpenConfirm)
    /\ TimerReady(fsm.holdTimer)
    /\ \E b \in BreakSets(conns, Slots) :
         Commit(holdTimerDisconnect(WTimer("holdTimer", b)), rcv)
    /\ UNCHANGED tc

OpenConfirmKeepaliveTimer ==
    /\ MainAt(OpenConfirm)
    /\ TimerReady(fsm.keepaliveTimer)
    /\ \E b \in BreakSets(conns, Slots) :
         Commit(openConfirmKeepaliveTimer(WTimer("keepaliveTimer", b)), rcv)
    /\ UNCHANGED tc

OpenConfirmConn ==
    /\ MainAt(OpenConfirm)
    /\ \E src \in ConOffers : \E b \in BreakSets(WithCon(src), {OfferedCon}) :
         /\ Commit(secondCon(WCon(src, b), OfferedCon), RcvWithCon)
         /\ TakeCon(src)

OpenConfirmRecvMsg ==
    /\ MainAt(OpenConfirm)
    /\ \E c \in MsgOffers, p \in SentMsgs, b \in BreakSets(conns, Slots),
          names \in FireSets({"holdTimer"}) :
         Commit(openConfirmMsg(WFired(b, names), c, p.msg), AfterMsg(c))
    /\ UNCHANGED tc

OpenConfirmRecvFail ==
    /\ MainAt(OpenConfirm)
    /\ \E c \in FailOffers : Commit(openConfirmRecvFail(W, c), AfterFail(c))
    /\ UNCHANGED tc

EstablishedEvent ==
    /\ MainAt(Established)
    /\ \E src \in EventOffers, b \in BreakSets(conns, Slots) :
         CommitEvent(establishedEvent(WBreaks(b), OfferedEvent(src)), src)
    /\ UNCHANGED tc

EstablishedHoldTimer ==
    /\ MainAt(Established)
    /\ TimerReady(fsm.holdTimer)
    /\ \E b \in BreakSets(conns, Slots) :
         Commit(establishedHoldTimer(WTimer("holdTimer", b)), rcv)
    /\ UNCHANGED tc

EstablishedKeepaliveTimer ==
    /\ MainAt(Established)
    /\ TimerReady(fsm.keepaliveTimer)
    /\ \E b \in BreakSets(conns, Slots) :
         Commit(establishedKeepaliveTimer(WTimer("keepaliveTimer", b)), rcv)
    /\ UNCHANGED tc

EstablishedConn ==
    /\ MainAt(Established)
    /\ \E src \in ConOffers :
         /\ Commit(CloseCon(WCon(src, {}), OfferedCon), RcvWithCon)
         /\ TakeCon(src)

EstablishedRecvMsg ==
    /\ MainAt(Established)
    /\ \E c \in MsgOffers, p \in SentMsgs, b \in BreakSets(conns, Slots),
          names \in FireSets({"holdTimer"}) :
         Commit(establishedMsg(WFired(b, names), p.msg), AfterMsg(c))
    /\ UNCHANGED tc

EstablishedRecvFail ==
    /\ MainAt(Established)
    /\ \E c \in FailOffers : Commit(openConfirmRecvFail(W, c), AfterFail(c))
    /\ UNCHANGED tc

(***************************************************************************)
(* The other goroutines and the peer.                                      *)
(***************************************************************************)
\* FSM.tcpConnector: net.DialTCP failed, or nobody received the connection;
\* the 30 second timer of the send ends the wait (and closes the connection)
TcTimeout ==
    /\ Alive /\ tc = "busy"
    /\ tc' = "select"
    /\ UNCHANGED <<fsm, mainPc, conns, rcv, stopPc, dying>>
    /\ lastWrite' = << >>

\* FSM.tcpConnector: case <-fsm.t.Dying(); t.Wait() of Stop returns once
\* main and tcpConnector have returned
TcDying ==
    /\ Alive /\ tc = "select" /\ dying
    /\ tc' = "done"
    /\ stopPc' = IF stopPc = "wait" /\ mainPc = "done" THEN "done" ELSE stopPc
    /\ UNCHANGED <<fsm, mainPc, conns, rcv, dying>>
    /\ lastWrite' = << >>

\* the peer closes or resets a connection: recvMsg fails
PeerBreak ==
    /\ Alive
    /\ \E c \in DOMAIN rcv :
         /\ rcv[c] = "recv" /\ Live(conns, c)
         /\ conns' = [conns EXCEPT ![c].broken = TRUE]
         /\ rcv' = [rcv EXCEPT ![c] = "sendFail"]
    /\ UNCHANGED <<fsm, mainPc, tc, stopPc, dying>>
    /\ lastWrite' = << >>

(***************************************************************************)
(* SpecPfx: the prefix operations applied to inputs drawn from PfxInputs.  *)
(***************************************************************************)
DoContains ==
    /\ pOp = "none"
    /\ pOp' = "Contains"
    /\ pRes' = [NoPRes EXCEPT !.b = Contains(pa, pb)]
    /\ UNCHANGED <<pa, pb>>

\* callers check equality first (insert returns on *n.pfx == *pfx)
DoGetSupernet ==
    /\ pOp = "none"
    /\ pa # pb
    /\ pOp' = "GetSupernet"
    /\ LET r == GetSupernetRun(pa, pb)
       IN  pRes' = [b |-> FALSE, pfx |-> GetSupernet(pa, pb), i |-> r.i]
    /\ UNCHANGED <<pa, pb>>

InitPfx ==
    /\ pa \in PfxInputs /\ pb \in PfxInputs
    /\ pOp = "none" /\ pRes = NoPRes
    /\ LpmIdle /\ DecIdle /\ FsmIdle

NextPfx ==
    \/ DoContains /\ UNCHANGED <<lpmVars, decVars, fsmVars>>
    \/ DoGetSupernet /\ UNCHANGED <<lpmVars, decVars, fsmVars>>

SpecPfx == InitPfx /\ [][NextPfx]_vars

(***************************************************************************)
(* SpecLPM: Insert calls on an initially empty trie, and queries.          *)
(***************************************************************************)
\* the caller makes one call at a time: a query's result is held in qRes
\* until the caller is done with it (QueryReturn)
Insert(pfx) ==
    /\ qOp = "none"
    /\ nInserts < MaxInserts
    /\ root' = InsertRoot(root, pfx)
    /\ inserted' = inserted \cup {pfx}
    /\ removed' = removed \ {pfx}
    /\ nInserts' = nInserts + 1
    /\ UNCHANGED <<qOp, qNeedle, qRes>>

QueryGet(pfx, moreSpecifics) ==
    /\ qOp = "none"
    /\ qOp' = IF moreSpecifics THEN "GetMore" ELSE "Get"
    /\ qNeedle' = pfx
    /\ qRes' = Get(root, pfx, moreSpecifics)
    /\ UNCHANGED <<root, inserted, removed, nInserts>>

QueryLPM(pfx) ==
    /\ qOp = "none"
    /\ qOp' = "LPM"
    /\ qNeedle' = pfx
    /\ qRes' = LPM(root, pfx)
    /\ UNCHANGED <<root, inserted, removed, nInserts>>

\* LPM.Dump: the real prefixes of the whole trie in pre-order
QueryDump ==
    /\ qOp = "none"
    /\ qOp' = "Dump"
    /\ qNeedle' = NoPfx
    /\ qRes' = Dump(root)
    /\ UNCHANGED <<root, inserted, removed, nInserts>>

QueryReturn ==
    /\ qOp # "none"
    /\ qOp' = "none" /\ qNeedle' = NoPfx /\ qRes' = << >>
    /\ UNCHANGED <<root, inserted, removed, nInserts>>

InitLPM == LpmIdle /\ PfxIdle /\ DecIdle /\ FsmIdle

NextLPM ==
    \/ \E p \in LpmPfxs : Insert(p) /\ UNCHANGED <<pfxVars, decVars, fsmVars>>
    \/ \E p \in LpmPfxs, m \in BOOLEAN : QueryGet(p, m) /\ UNCHANGED <<pfxVars, decVars, fsmVars>>
    \/ \E p \in LpmPfxs : QueryLPM(p) /\ UNCHANGED <<pfxVars, decVars, fsmVars>>
    \/ QueryDump /\ UNCHANGED <<pfxVars, decVars, fsmVars>>
    \/ QueryReturn /\ UNCHANGED <<pfxVars, decVars, fsmVars>>

SpecLPM == InitLPM /\ [][NextLPM]_vars

(***************************************************************************)
(* SpecRib: SpecLPM with Remove calls, the trie as the Adj-RIB-In uses it. *)
(***************************************************************************)
Remove(pfx) ==
    /\ qOp = "none"
    /\ Cardinality(removed \cup {pfx}) <= MaxRemoved
    /\ root' = remove(root, pfx)
    /\ removed' = removed \cup {pfx}
    /\ UNCHANGED <<inserted, nInserts, qOp, qNeedle, qRes>>

NextRib ==
    \/ \E p \in LpmPfxs : Insert(p) /\ UNCHANGED <<pfxVars, decVars, fsmVars>>
    \/ \E p \in LpmPfxs : Remove(p) /\ UNCHANGED <<pfxVars, decVars, fsmVars>>
    \/ \E p \in LpmPfxs, m \in BOOLEAN : QueryGet(p, m) /\ UNCHANGED <<pfxVars, decVars, fsmVars>>
    \/ \E p \in LpmPfxs : QueryLPM(p) /\ UNCHANGED <<pfxVars, decVars, fsmVars>>
    \/ QueryDump /\ UNCHANGED <<pfxVars, decVars, fsmVars>>
    \/ QueryReturn /\ UNCHANGED <<pfxVars, decVars, fsmVars>>

SpecRib == InitLPM /\ [][NextRib]_vars

(***************************************************************************)
(* SpecDec: decodeHeader and Decode applied to buffers drawn from DecInputs.*)
(***************************************************************************)
DoDecodeHeader ==
    /\ dOp = "none"
    /\ dOp' = "decodeHeader"
    /\ LET h == decodeHeader(dBuf)
       IN  dRes' = [Header |-> h.hdr, Body |-> NoBody, err |-> h.err]
    /\ UNCHANGED dBuf

DoDecode ==
    /\ dOp = "none"
    /\ dOp' = "Decode"
    /\ dRes' = Decode(dBuf)
    /\ UNCHANGED dBuf

\* the body decoders called on their own, as the tests of the package do
DoDecodeOpenMsg ==
    /\ dOp = "none" /\ dBuf \in OpenBodies
    /\ dOp' = "decodeOpenMsg"
    /\ LET r == decodeOpenMsg(dBuf)
       IN  dRes' = [Header |-> NoHdr, Body |-> r.msg, err |-> r.err]
    /\ UNCHANGED dBuf

DoDecodeOpenMsgInner ==
    /\ dOp = "none" /\ dBuf \in OpenBodies
    /\ dOp' = "_decodeOpenMsg"
    /\ LET r == decodeOpenMsgInner(dBuf)
       IN  dRes' = [Header |-> NoHdr, Body |-> r.msg, err |-> r.err]
    /\ UNCHANGED dBuf

\* NOTIFICATION bodies: every error code up to MaxErrCode with every subcode
\* up to MaxErrSubcode, the largest byte values, and bodies cut short
MaxErrCode == 8
MaxErrSubcode == 13
NotifBodies ==
    { <<c, sc>> : c \in (0 .. MaxErrCode) \cup {255}, sc \in (0 .. MaxErrSubcode) \cup {255} }
    \cup { <<3>>, << >> }

DoDecodeNotificationMsg ==
    /\ dOp = "none" /\ dBuf \in NotifBodies
    /\ dOp' = "decodeNotificationMsg"
    /\ LET r == decodeNotificationMsg(dBuf)
       IN  dRes' = [Header |-> NoHdr, Body |-> r.msg, err |-> r.err]
    /\ UNCHANGED dBuf

\* a NOTIFICATION message with a good header around each NOTIFICATION body
NotifMsgs == { GoodMarker \o <<0, MinLen + Len(b), NotificationMsg>> \o b : b \in NotifBodies }

\* messages handed to the encoder: KEEPALIVE, a NOTIFICATION for each pair of
\* NotifBodies, an OPEN for each version, identifier and two-byte values
\* with one or both bytes set
EncMsgs ==
    { [Type |-> KeepaliveMsg, Body |-> NoBody] }
    \cup { [Type |-> NotificationMsg,
            Body |-> [kind |-> "notification", ErrorCode |-> b[1], ErrorSubcode |-> b[2]]] :
            b \in { n \in NotifBodies : Len(n) = 2 } }
    \cup { [Type |-> OpenMsg,
            Body |-> [kind |-> "open", Version |-> v, AS |-> as, HoldTime |-> h,
                      BGPIdentifier |-> id, OptParmLen |-> 0]] :
            v \in {3, 4}, as \in {1, 257, 65535}, h \in {0, 15, 258}, id \in OpenIds }

\* the encoder writes a message into an empty buffer; dRes keeps the message
DoEncode ==
    /\ dOp = "none" /\ dBuf = << >>
    /\ \E m \in EncMsgs :
         /\ dBuf' = Encode(m.Type, m.Body)
         /\ dRes' = [Header |-> [Length |-> 0, Type |-> m.Type], Body |-> m.Body, err |-> NoErr]
    /\ dOp' = "Encode"

\* Decode reads what the encoder wrote
DoDecodeEncoded ==
    /\ dOp = "Encode"
    /\ dOp' = "DecodeEncoded"
    /\ dRes' = Decode(dBuf)
    /\ UNCHANGED dBuf

\* UPDATE bodies: a withdrawn routes length, withdrawn routes, a total path
\* attribute length, path attributes and NLRI, the lengths declared right,
\* too small or too large; prefix lengths 0, 8 and 40
NlriChunks == { << >>, <<0>>, <<8, 10>>, <<40, 1, 2, 3, 4>> }
UpdateBodies ==
    { <<0, wl>> \o wr \o <<0, tl>> \o attrs \o nl :
        wl \in {0, 1, 2, 6, 33}, wr \in NlriChunks,
        tl \in {0, 3, 4, 9}, attrs \in { << >>, <<64, 1, 1, 0>> }, nl \in NlriChunks }
    \cup { <<0>>, <<0, 0, 0>> }

\* NLRI entries: a prefix length byte up to MaxPfxLenByte or near 255, followed
\* by none to six address bytes
MaxPfxLenByte == 41
NlriBufs ==
    { <<l>> \o Take(<<1, 2, 3, 4, 5, 6>>, k) :
        l \in (0 .. MaxPfxLenByte) \cup {248, 249, 255}, k \in 0 .. 6 }

\* decodeNLRI on its own: dRes keeps the entry, the count reported as
\* consumed and the bytes left in the buffer
DoDecodeNLRI ==
    /\ dOp = "none" /\ dBuf \in NlriBufs
    /\ dOp' = "decodeNLRI"
    /\ LET r == decodeNLRI(dBuf)
       IN  dRes' = [Header |-> NoHdr,
                    Body |-> [kind |-> "nlri", nlri |-> r.nlri, consumed |-> r.consumed,
                              rest |-> r.buf],
                    err |-> IF r.ok THEN NoErr ELSE PlainError]
    /\ UNCHANGED dBuf

\* one path attribute on the wire: flags, type code, length in one byte or,
\* with the extended length flag, in two, then the value bytes
AttrBytes(flags, typeCode, length, value) ==
    IF isExtendedLength(flags) THEN <<flags, typeCode, 0, length>> \o value
    ELSE <<flags, typeCode, length>> \o value

\* value bytes: ORIGIN values in and out of range, AS paths with good and
\* bad segments, addresses, 32-bit values, an aggregator, with and without
\* excess bytes
AttrValues ==
    { << >>, <<0>>, <<1>>, <<2>>, <<3>>, <<0, 0>>, <<2, 0>>, <<0, 9, 9>>,
      <<2, 1, 0, 100>>, <<3, 1, 0, 1>>, <<2, 2, 0, 1>>, <<10, 0, 0, 1>>,
      <<1, 2, 0, 1, 0, 2>>, <<0, 100, 10, 0, 0, 1>>, <<10, 0, 0, 1, 9, 9>>,
      <<0, 100, 10, 0, 0, 1, 9, 9>> }

MaxAttrType == 8
MaxAttrLen == 8

\* UPDATE bodies without routes: one attribute of every type code up to
\* MaxAttrType with every declared length up to MaxAttrLen and every value,
\* alone or followed by a well-formed ORIGIN
SomeAttrs ==
    { AttrBytes(f, t, l, v) : f \in {64, 80}, t \in 0 .. MaxAttrType,
                              l \in 0 .. MaxAttrLen, v \in AttrValues }
AttrBodies ==
    { <<0, 0, 0, Len(a) + Len(n)>> \o a \o n : a \in SomeAttrs, n \in { << >>, <<64, 1, 1, 0>> } }

\* decodeUpdateMsg called as TestDecodeUpdateMsg calls it, l the body's length
DoDecodeUpdateMsg ==
    /\ dOp = "none" /\ dBuf \in UpdateBodies \cup AttrBodies
    /\ dOp' = "decodeUpdateMsg"
    /\ LET r == decodeUpdateMsg(dBuf, Len(dBuf))
       IN  dRes' = [Header |-> NoHdr, Body |-> r.msg, err |-> r.err]
    /\ UNCHANGED dBuf

\* an UPDATE message with a good header around each UPDATE body
UpdateMsgs == { GoodMarker \o <<0, MinLen + Len(b), UpdateMsg>> \o b : b \in UpdateBodies }

\* an OPEN message with a good header around each OPEN body
OpenMsgs == { GoodMarker \o <<0, MinLen + Len(b), OpenMsg>> \o b : b \in OpenBodies }

InitDec ==
    /\ dBuf \in DecInputs \cup OpenBodies \cup OpenMsgs \cup NotifBodies \cup NotifMsgs
                \cup UpdateBodies \cup UpdateMsgs \cup AttrBodies \cup NlriBufs
    /\ dOp = "none" /\ dRes = NoDRes
    /\ PfxIdle /\ LpmIdle /\ FsmIdle

NextDec ==
    \/ DoDecodeHeader /\ UNCHANGED <<pfxVars, lpmVars, fsmVars>>
    \/ DoDecode /\ UNCHANGED <<pfxVars, lpmVars, fsmVars>>
    \/ DoDecodeOpenMsg /\ UNCHANGED <<pfxVars, lpmVars, fsmVars>>
    \/ DoDecodeOpenMsgInner /\ UNCHANGED <<pfxVars, lpmVars, fsmVars>>
    \/ DoDecodeNotificationMsg /\ UNCHANGED <<pfxVars, lpmVars, fsmVars>>
    \/ DoDecodeUpdateMsg /\ UNCHANGED <<pfxVars, lpmVars, fsmVars>>
    \/ DoDecodeNLRI /\ UNCHANGED <<pfxVars, lpmVars, fsmVars>>
    \/ DoEncode /\ UNCHANGED <<pfxVars, lpmVars, fsmVars>>
    \/ DoDecodeEncoded /\ UNCHANGED <<pfxVars, lpmVars, fsmVars>>

SpecDec == InitDec /\ [][NextDec]_vars

(***************************************************************************)
(* Spec: the peer FSM.  FairSpec: a goroutine that can take a step on its   *)
(* own eventually takes it, and an armed timer the FSM waits for expires.  *)
(***************************************************************************)
Init == FsmIdle /\ PfxIdle /\ LpmIdle /\ DecIdle

MainEvent ==
    \/ IdleEvent \/ ConnectEvent \/ ActiveEvent
    \/ OpenSentEvent \/ OpenConfirmEvent \/ EstablishedEvent

MainConn ==
    \/ IdleConn \/ ConnectConn \/ ActiveConn
    \/ OpenSentConn \/ OpenConfirmConn \/ EstablishedConn

MainTimer ==
    \/ RetryTimer
    \/ OpenSentHoldTimer \/ OpenConfirmHoldTimer \/ OpenConfirmKeepaliveTimer
    \/ EstablishedHoldTimer \/ EstablishedKeepaliveTimer

MainRecv ==
    \/ OpenSentRecvMsg \/ OpenSentRecvFail
    \/ OpenConfirmRecvMsg \/ OpenConfirmRecvFail
    \/ EstablishedRecvMsg \/ EstablishedRecvFail

ConnectorStep == TcTimeout \/ TcDying

Next ==
    \/ IdleConn /\ UNCHANGED <<pfxVars, lpmVars, decVars, peer>>
    \/ IdleEvent /\ UNCHANGED <<pfxVars, lpmVars, decVars, peer>>
    \/ ConnectEvent /\ UNCHANGED <<pfxVars, lpmVars, decVars, peer>>
    \/ ConnectConn /\ UNCHANGED <<pfxVars, lpmVars, decVars, peer>>
    \/ ActiveEvent /\ UNCHANGED <<pfxVars, lpmVars, decVars, peer>>
    \/ RetryTimer /\ UNCHANGED <<pfxVars, lpmVars, decVars, peer>>
    \/ ActiveConn /\ UNCHANGED <<pfxVars, lpmVars, decVars, peer>>
    \/ TcpConnectReceived /\ UNCHANGED <<pfxVars, lpmVars, decVars, peer>>
    \/ OpenSentEvent /\ UNCHANGED <<pfxVars, lpmVars, decVars, peer>>
    \/ OpenSentHoldTimer /\ UNCHANGED <<pfxVars, lpmVars, decVars, peer>>
    \/ OpenSentConn /\ UNCHANGED <<pfxVars, lpmVars, decVars, peer>>
    \/ OpenSentRecvMsg /\ UNCHANGED <<pfxVars, lpmVars, decVars, peer>>
    \/ OpenSentRecvFail /\ UNCHANGED <<pfxVars, lpmVars, decVars, peer>>
    \/ OpenConfirmEvent /\ UNCHANGED <<pfxVars, lpmVars, decVars, peer>>
    \/ OpenConfirmHoldTimer /\ UNCHANGED <<pfxVars, lpmVars, decVars, peer>>
    \/ OpenConfirmKeepaliveTimer /\ UNCHANGED <<pfxVars, lpmVars, decVars, peer>>
    \/ OpenConfirmConn /\ UNCHANGED <<pfxVars, lpmVars, decVars, peer>>
    \/ OpenConfirmRecvMsg /\ UNCHANGED <<pfxVars, lpmVars, decVars, peer>>
    \/ OpenConfirmRecvFail /\ UNCHANGED <<pfxVars, lpmVars, decVars, peer>>
    \/ EstablishedEvent /\ UNCHANGED <<pfxVars, lpmVars, decVars, peer>>
    \/ EstablishedHoldTimer /\ UNCHANGED <<pfxVars, lpmVars, decVars, peer>>
    \/ EstablishedKeepaliveTimer /\ UNCHANGED <<pfxVars, lpmVars, decVars, peer>>
    \/ EstablishedConn /\ UNCHANGED <<pfxVars, lpmVars, decVars, peer>>
    \/ EstablishedRecvMsg /\ UNCHANGED <<pfxVars, lpmVars, decVars, peer>>
    \/ EstablishedRecvFail /\ UNCHANGED <<pfxVars, lpmVars, decVars, peer>>
    \/ TcTimeout /\ UNCHANGED <<pfxVars, lpmVars, decVars, peer>>
    \/ TcDying /\ UNCHANGED <<pfxVars, lpmVars, decVars, peer>>
    \/ PeerBreak /\ UNCHANGED <<pfxVars, lpmVars, decVars, peer>>

Spec == Init /\ [][Next]_vars

\* the FSM with a peer that opens a third connection
InitCol == FsmStarted /\ peer = CollidingPeer /\ PfxIdle /\ LpmIdle /\ DecIdle
SpecCol == InitCol /\ [][Next]_vars

FairSpec ==
    /\ Spec
    /\ WF_fsmVars(MainTimer /\ UNCHANGED peer)
    /\ WF_fsmVars(MainRecv /\ UNCHANGED peer)
    /\ WF_fsmVars(TcpConnectReceived /\ UNCHANGED peer)
    /\ WF_fsmVars(ConnectorStep /\ UNCHANGED peer)

(***************************************************************************)
(* Properties.                                                             *)
(***************************************************************************)
\* containment as the data model defines it: x is strictly longer than a and
\* all of the top a.pfxlen bits of the two addresses are equal
RefContains(a, x) ==
    /\ x.pfxlen > a.pfxlen
    /\ \A i \in 1 .. 32 : i <= a.pfxlen => a.addr[i] = x.addr[i]

\* the two addresses agree on their top L bits
AgreeTop(a, b, L) == \A i \in 1 .. 32 : i <= L => a[i] = b[i]

\* addr with everything below its top L bits cleared
Truncate(addr, L) == [i \in 1 .. 32 |-> IF i <= L THEN addr[i] ELSE 0]

Elems(seq) == { seq[i] : i \in 1 .. Len(seq) }

\* C1: every prefix that was inserted is found: Get(p, false) returns exactly
\* [p], whatever was inserted before or after it.
C1_InsertedIsFound ==
    (qOp = "Get" /\ qNeedle \in inserted) => qRes = <<qNeedle>>

\* C2: LPM(needle) returns exactly the inserted prefixes that equal the needle
\* or contain it; for an inserted needle the list ends with the needle.
C2_LPMExact ==
    qOp = "LPM" =>
        /\ Elems(qRes) = { q \in inserted : q = qNeedle \/ RefContains(q, qNeedle) }
        /\ qNeedle \in inserted =>
              /\ Len(qRes) > 0
              /\ qRes[Len(qRes)] = qNeedle
              /\ \A i \in 1 .. Len(qRes) - 1 : RefContains(qRes[i], qNeedle)

\* C3: Get(p, true) returns p if it was inserted plus exactly the inserted
\* prefixes that p contains, also when p itself was not inserted.
C3_GetMoreExact ==
    qOp = "GetMore" =>
        Elems(qRes) = { q \in inserted : q = qNeedle \/ RefContains(qNeedle, q) }

\* the rule a buffer holding a whole header violates first, as (code, subcode),
\* or <<0, 0>> when it violates none
HeaderLength(buf) == buf[MarkerLen + 1] * 256 + buf[MarkerLen + 2]
HeaderType(buf) == buf[MarkerLen + 3]
FirstHeaderViolation(buf) ==
    IF \E i \in 1 .. MarkerLen : buf[i] # 255
    THEN <<MessageHeaderError, ConnectionNotSync>>
    ELSE IF HeaderLength(buf) \notin MinLen .. MaxLen
    THEN <<MessageHeaderError, BadMessageLength>>
    ELSE IF HeaderType(buf) \notin 1 .. 4
    THEN <<MessageHeaderError, BadMessageType>>
    ELSE <<0, 0>>

\* the OPEN rule a 10-byte OPEN body violates first, or <<0, 0>>
OpenIdOK(id) ==
    /\ id[1] # 127 /\ id[1] \notin 224 .. 239 /\ id[1] # 0
    /\ id # <<255, 255, 255, 255>>
FirstOpenViolation(body) ==
    IF body[1] # 4 THEN <<OpenMessageError, UnsupportedVersionNumber>>
    ELSE IF ~OpenIdOK(SubSeq(body, 6, 9)) THEN <<OpenMessageError, BadBGPIdentifier>>
    ELSE <<0, 0>>

C7_DecodeKeepsBGPError ==
    (dOp = "Decode" /\ Len(dBuf) >= MinLen) =>
        LET hv == FirstHeaderViolation(dBuf)
            body == Drop(dBuf, MinLen)
        IN  /\ hv # <<0, 0>> => dRes.err = BGPError(hv[1], hv[2])
            /\ (hv = <<0, 0>> /\ HeaderType(dBuf) = OpenMsg /\ Len(body) >= 10
                  /\ FirstOpenViolation(body) # <<0, 0>>)
               => dRes.err = BGPError(FirstOpenViolation(body)[1], FirstOpenViolation(body)[2])

\* C9: Prefix.Contains agrees with the reference definition on all of the
\* top pfxlen bits.
C9_ContainsIsReference ==
    pOp = "Contains" => (pRes.b <=> RefContains(pa, pb))

\* C10: for distinct prefixes with lengths in 1..32 GetSupernet returns the
\* address truncated to L bits and L, where L is the largest length below
\* both prefix lengths on which the addresses agree; the result contains both
\* arguments, no longer prefix does, and the loop ends within 31 rounds with
\* L in 0..31.
C10_Supernet ==
    (pOp = "GetSupernet" /\ pa.pfxlen \in 1 .. 32 /\ pb.pfxlen \in 1 .. 32) =>
        LET r == pRes.pfx
            m == min(pa.pfxlen, pb.pfxlen)
        IN  /\ r.pfxlen \in 0 .. 31
            /\ r.pfxlen <= m - 1
            /\ AgreeTop(pa.addr, pb.addr, r.pfxlen)
            /\ \A L \in r.pfxlen + 1 .. m - 1 : ~AgreeTop(pa.addr, pb.addr, L)
            /\ r.addr = Truncate(pa.addr, r.pfxlen)
            /\ RefContains(r, pa) /\ RefContains(r, pb)
            /\ \A L \in r.pfxlen + 1 .. 32 : \A ad \in PfxAddrs :
                  ~(RefContains(NewPfx(ad, L), pa) /\ RefContains(NewPfx(ad, L), pb))
            /\ pRes.i = (m - 1) - r.pfxlen
            /\ pRes.i <= 31

\* C10 witness: the loop ran at least twice and stopped at a length above 0
C10_Witness ==
    /\ pOp = "GetSupernet" /\ pa.pfxlen \in 1 .. 32 /\ pb.pfxlen \in 1 .. 32
    /\ pRes.i >= 2 /\ pRes.pfx.pfxlen >= 1

(***************************************************************************)
(* Properties of the peer FSM.  A step of FSM.main is recognised by what   *)
(* it does to the state: HandlesOpen(p) and EstablishedHandles(p) hold of  *)
(* a step that is the handling of the peer's message p with no write       *)
(* failing.                                                                *)
(***************************************************************************)
\* the valid OPEN messages among the peer's messages
PeerOpens ==
    { p \in DecodedPeerMsgs : p.msg.err = NoErr /\ p.msg.Header.Type = OpenMsg }

\* two open connections are tracked, one accepted on port 179 and one dialled
TwoTracked ==
    /\ fsm.con # NoCon /\ fsm.con2 # NoCon /\ fsm.con # fsm.con2
    /\ Live(conns, fsm.con) /\ Live(conns, fsm.con2)
    /\ isPassive(conns, fsm.con) # isPassive(conns, fsm.con2)

HandlesOpen(p) ==
    \/ /\ MainAt(OpenSent)
       /\ \E c \in MsgOffers, names \in FireSets({"holdTimer", "keepaliveTimer"}) :
            Commit(openSentMsg(WFired({}, names), c, p.msg), AfterMsg(c))
    \/ /\ MainAt(OpenConfirm)
       /\ \E c \in MsgOffers, names \in FireSets({"holdTimer"}) :
            Commit(openConfirmMsg(WFired({}, names), c, p.msg), AfterMsg(c))

\* the tracked connection that is passive (TRUE) or dialled (FALSE)
SlotCon(isPassiveCon) ==
    IF isPassive(conns, fsm.con) = isPassiveCon THEN fsm.con ELSE fsm.con2

\* after the step kept is the primary connection and open, dumped is closed
KeptAndDumped(kept, dumped) ==
    /\ fsm'.con = kept
    /\ Live(conns', kept)
    /\ conns'[dumped].closed

\* C4: when a passive and a dialled connection are tracked and an OPEN of the
\* peer is handled, the dialled connection is kept and the passive one closed
\* if the local router id is greater than the peer's, otherwise (equal ids
\* included) the passive one is kept and the dialled one closed; the kept
\* connection is the primary one afterwards
C4_CollisionResolution ==
    [][ \A p \in PeerOpens :
          (TwoTracked /\ HandlesOpen(p)) =>
              IF IdGreater(routerID, p.msg.Body.BGPIdentifier)
              THEN KeptAndDumped(SlotCon(FALSE), SlotCon(TRUE))
              ELSE KeptAndDumped(SlotCon(TRUE), SlotCon(FALSE)) ]_vars

\* C4 witness: the OPEN of a peer with the smaller id has just been handled:
\* the passive connection got the NOTIFICATION and is closed, the dialled one
\* is the primary connection
C4_Witness ==
    /\ fsm.state = OpenConfirm
    /\ IdGreater(routerID, fsm.neighborID)
    /\ fsm.con # NoCon /\ Live(conns, fsm.con) /\ ~isPassive(conns, fsm.con)
    /\ \E i \in DOMAIN lastWrite :
         /\ lastWrite[i].msg.type = NotificationMsg
         /\ lastWrite[i].con # fsm.con
         /\ isPassive(conns, lastWrite[i].con)
         /\ conns[lastWrite[i].con].closed

\* C5: once Stop has handed over ManualStop and killed the tomb, the FSM
\* enters Cease, main and tcpConnector return, and t.Wait() of Stop returns
C5_StopTerminates ==
    (stopPc = "wait") ~>
        (fsm.state = Cease /\ mainPc = "done" /\ tc = "done" /\ stopPc = "done")

\* the header of p breaks a rule: decodeHeader reports code and subcode
HeaderFails(p) == decodeHeader(p.bytes).err.kind = "BGPError"

EstablishedHandles(p) ==
    /\ MainAt(Established)
    /\ \E c \in MsgOffers, names \in FireSets({"holdTimer"}) :
         Commit(establishedMsg(WFired({}, names), p.msg), AfterMsg(c))

NotificationFor(c, err) ==
    [con |-> c, msg |-> [type |-> NotificationMsg, code |-> err.code, sub |-> err.sub]]

\* C8: in Established, handling a message whose decoding fails with a code and
\* subcode writes the NOTIFICATION with that code and subcode on the
\* connection, closes the connection, adds one to connectRetryCounter and
\* moves to Idle
C8_EstablishedDecodeFailure ==
    [][ \A p \in DecodedPeerMsgs :
          (HeaderFails(p) /\ Live(conns, fsm.con) /\ EstablishedHandles(p)) =>
              /\ \E i \in DOMAIN lastWrite' :
                   lastWrite'[i] = NotificationFor(fsm.con, decodeHeader(p.bytes).err)
              /\ conns'[fsm.con].closed
              /\ fsm'.connectRetryCounter = fsm.connectRetryCounter + 1
              /\ fsm'.state = Idle ]_vars

(***************************************************************************)
(* Properties of the trie under Insert, Remove and the queries.            *)
(***************************************************************************)
NoDuplicates(seq) == \A i, j \in 1 .. Len(seq) : i # j => seq[i] # seq[j]

\* the step is an Insert of a prefix that was inserted before
ReInsertStep == nInserts' = nInserts + 1 /\ inserted' = inserted

\* C11: an Insert of a prefix that was already inserted leaves the trie as it
\* was (nodes, children, skip values, dummy flags), and the pre-order
\* enumeration of the real prefixes lists no prefix twice
C11_InsertIdempotent ==
    [][ ReInsertStep => (root' = root /\ NoDuplicates(Dump(root'))) ]_vars

\* seq without the entries equal to p
Without(seq, p) == SelectSeq(seq, LAMBDA x : x # p)

\* the step is the call Remove(p) / Insert(p)
RemoveStep(p) ==
    /\ qOp = "none" /\ qOp' = "none" /\ nInserts' = nInserts
    /\ removed' = removed \cup {p}
    /\ root' = remove(root, p)

InsertStep(p) ==
    /\ nInserts' = nInserts + 1
    /\ inserted' = inserted \cup {p}
    /\ removed' = removed \ {p}
    /\ root' = InsertRoot(root, p)

\* every query of the trie r2 returns what it returns of r1, p left aside
SameButFor(r1, r2, p) ==
    /\ Without(Dump(r2), p) = Without(Dump(r1), p)
    /\ \A q \in LpmPfxs :
         /\ q # p => Get(r2, q, FALSE) = Get(r1, q, FALSE)
         /\ Without(Get(r2, q, TRUE), p) = Without(Get(r1, q, TRUE), p)
         /\ Without(LPM(r2, q), p) = Without(LPM(r1, q), p)

\* no query returns a prefix removed and not inserted since
C12_RemovedAbsent == qOp # "none" => Elems(qRes) \cap removed = {}

\* Remove(p) leaves every other prefix as it was, and changes nothing when p
\* is not stored
C12_RemoveFrame ==
    \A p \in LpmPfxs :
        RemoveStep(p) =>
            /\ SameButFor(root, root', p)
            /\ p \notin (inserted \ removed) => root' = root

\* Insert(p) of a prefix that was inserted, removed and is absent brings it back
C12_InsertedAgain ==
    \A p \in removed \cap inserted :
        (Get(root, p, FALSE) = << >> /\ InsertStep(p)) => Get(root', p, FALSE) = <<p>>

\* C12: Remove(p) makes p absent from every query until p is inserted again,
\* after which p is returned again; every other stored prefix is returned as
\* before the removal; removing a prefix that is not stored changes nothing
C12_RemoveThenInsert ==
    /\ [] C12_RemovedAbsent
    /\ [][ C12_RemoveFrame /\ C12_InsertedAgain ]_vars

\* the prefixes of the dummy nodes of a trie
RECURSIVE Dummies(_)
Dummies(p) ==
    IF p = Nil THEN {}
    ELSE (IF p[1].dummy THEN {p[1].pfx} ELSE {})
         \cup Dummies(p[1].l) \cup Dummies(p[1].h)

C14_LPMIncreasing ==
    qOp = "LPM" =>
        \A i \in 1 .. Len(qRes) - 1 : qRes[i].pfxlen < qRes[i + 1].pfxlen

(***************************************************************************)
(* Properties of the state functions.                                      *)
(***************************************************************************)
\* the step is the handling of ManualStop in a state other than Idle
ManualStopHandled ==
    \E src \in EventOffers :
        /\ OfferedEvent(src) = ManualStop
        /\ \/ MainAt(Connect) /\ CommitEvent(connectEvent(W, ManualStop), src)
           \/ MainAt(Active) /\ CommitEvent(activeEvent(W, ManualStop), src)
           \/ /\ MainAt(OpenSent) \/ MainAt(OpenConfirm)
              /\ \E b \in BreakSets(conns, Slots) :
                   CommitEvent(stopEvent(WBreaks(b), ManualStop), src)
           \/ /\ MainAt(Established)
              /\ \E b \in BreakSets(conns, Slots) :
                   CommitEvent(establishedEvent(WBreaks(b), ManualStop), src)

\* C15: ManualStop received in Connect, Active, OpenSent, OpenConfirm or
\* Established moves the FSM to Idle and sets connectRetryCounter to 0; from
\* Active too the next state is Idle
C15_ManualStopToIdle ==
    [][ ManualStopHandled =>
            (fsm'.state = Idle /\ fsm'.connectRetryCounter = 0) ]_vars

\* every connection the FSM refers to is open and not broken by the peer
TrackedLive ==
    /\ Live(conns, fsm.con)
    /\ fsm.con2 = NoCon \/ Live(conns, fsm.con2)

\* the step is openSent handling the OPEN p, no write failing
OpenSentHandles(p) ==
    /\ MainAt(OpenSent)
    /\ \E c \in MsgOffers, names \in FireSets({"holdTimer", "keepaliveTimer"}) :
         Commit(openSentMsg(WFired({}, names), c, p.msg), AfterMsg(c))

\* the KEEPALIVEs among the messages a step wrote
KeepalivesWritten(writes) ==
    { i \in DOMAIN writes : writes[i].msg.type = KeepaliveMsg }

NotificationsCarry(writes, err) ==
    \A i \in DOMAIN writes :
        writes[i].msg.type = NotificationMsg =>
            writes[i].msg = NotificationFor(writes[i].con, err).msg

\* the step is the hold timer case of OpenSent, OpenConfirm or Established
HoldTimerExpires ==
    OpenSentHoldTimer \/ OpenConfirmHoldTimer \/ EstablishedHoldTimer

\* the message types the state function of st has no case for, and OPEN in
\* Established
NotAllowedIn(st) ==
    IF st = OpenSent THEN {UpdateMsg, KeepaliveMsg}
    ELSE IF st = OpenConfirm THEN {UpdateMsg}
    ELSE IF st = Established THEN {OpenMsg}
    ELSE {}

\* the step is the handling of the peer's message p, which decodes and is
\* of a type not allowed in the current state
NotAllowedHandled(p) ==
    /\ p.msg.err = NoErr
    /\ p.msg.Header.Type \in NotAllowedIn(fsm.state)
    /\ \E c \in MsgOffers, b \in BreakSets(conns, Slots) :
         \/ /\ MainAt(OpenSent)
            /\ \E names \in FireSets({"holdTimer", "keepaliveTimer"}) :
                 Commit(openSentMsg(WFired(b, names), c, p.msg), AfterMsg(c))
         \/ /\ MainAt(OpenConfirm)
            /\ \E names \in FireSets({"holdTimer"}) :
                 Commit(openConfirmMsg(WFired(b, names), c, p.msg), AfterMsg(c))
         \/ /\ MainAt(Established) /\ fsm.con2 = NoCon
            /\ \E names \in FireSets({"holdTimer"}) :
                 Commit(establishedMsg(WFired(b, names), p.msg), AfterMsg(c))

\* the NOTIFICATIONs a step wrote on connection c carry err
NotificationsOn(writes, c, err) ==
    \A i \in DOMAIN writes :
        (writes[i].msg.type = NotificationMsg /\ writes[i].con = c) =>
            writes[i] = NotificationFor(c, err)

\* C17 (hold timer): the NOTIFICATION written when the hold timer expires
\* carries (HoldTimeExpired, 0)
C17_HoldTimer ==
    HoldTimerExpires => NotificationsCarry(lastWrite', BGPError(HoldTimeExpired, 0))

\* C17 (message not allowed): the NOTIFICATION written for a message type
\* that is not allowed in the state carries (FiniteStateMachineError, 0)
C17_NotAllowed ==
    \A p \in DecodedPeerMsgs :
        NotAllowedHandled(p) =>
            NotificationsCarry(lastWrite', BGPError(FiniteStateMachineError, 0))

\* C17 (collision): the NOTIFICATION on the connection that collision
\* resolution discards carries (Cease, ConnectionCollisionResolution)
C17_Collision ==
    \A p \in PeerOpens :
        (TwoTracked /\ HandlesOpen(p)) =>
            NotificationsOn(lastWrite',
                            IF IdGreater(routerID, p.msg.Body.BGPIdentifier)
                            THEN SlotCon(TRUE) ELSE SlotCon(FALSE),
                            BGPError(PktCease, ConnectionCollisionResolution))

\* C17 (ManualStop): the NOTIFICATION written on ManualStop carries (Cease, 0)
C17_ManualStop ==
    ManualStopHandled => NotificationsCarry(lastWrite', BGPError(PktCease, 0))

\* C17: every NOTIFICATION the FSM writes carries the code and subcode of
\* its cause: (HoldTimeExpired, 0) on expiry of the hold timer,
\* (FiniteStateMachineError, 0) for a message type that is not allowed,
\* (Cease, ConnectionCollisionResolution) on the connection collision
\* resolution discards, (Cease, 0) on ManualStop
C17_NotificationCause ==
    [][ C17_HoldTimer /\ C17_NotAllowed /\ C17_Collision /\ C17_ManualStop ]_vars

\* the valid UPDATE messages among the peer's messages
PeerUpdates ==
    { p \in DecodedPeerMsgs : p.msg.err = NoErr /\ p.msg.Header.Type = UpdateMsg }

\* the prefixes of a list of the UPDATE
ListPfxs(list) == { nlriPfx(list[i]) : i \in DOMAIN list }

\* C18 (Adj-RIB-In): after an UPDATE the Adj-RIB-In holds what it held
\* without the withdrawn prefixes, and every NLRI prefix, one that was also
\* withdrawn included
C18_RibAfterUpdate ==
    \A p \in PeerUpdates :
        EstablishedHandles(p) =>
            /\ Elems(Dump(fsm'.adjRibIn.root)) =
                   (Elems(Dump(fsm.adjRibIn.root)) \ ListPfxs(p.msg.Body.WithdrawnRoutes))
                       \cup ListPfxs(p.msg.Body.NLRI)
            /\ \A q \in ListPfxs(p.msg.Body.NLRI) :
                   Get(fsm'.adjRibIn.root, q, FALSE) = <<q>>

\* C18 (the rest): the hold timer is re-armed only with a hold time other
\* than 0, the state stays Established, connectRetryCounter and both
\* connection slots are unchanged
C18_UpdateFrame ==
    \A p \in PeerUpdates :
        EstablishedHandles(p) =>
            /\ IF fsm.holdTime # 0 THEN fsm'.holdTimer.armed
               ELSE fsm'.holdTimer = fsm.holdTimer
            /\ fsm'.state = Established
            /\ fsm'.connectRetryCounter = fsm.connectRetryCounter
            /\ fsm'.con = fsm.con /\ fsm'.con2 = fsm.con2

\* C18: in Established an UPDATE removes its withdrawn prefixes from the
\* Adj-RIB-In, then inserts its NLRI prefixes (a prefix both withdrawn and
\* announced ends up stored), re-arms the hold timer only with a hold time
\* other than 0, and leaves the state, connectRetryCounter and the
\* connection slots as they are
C18_EstablishedOnUpdate ==
    [][ C18_RibAfterUpdate /\ C18_UpdateFrame ]_vars

\* C19 (state): an OPEN handled in Established closes the connection, adds
\* one to connectRetryCounter and moves to Idle
C19_OpenToIdle ==
    \A p \in PeerOpens :
        (Live(conns, fsm.con) /\ EstablishedHandles(p)) =>
            /\ conns'[fsm.con].closed
            /\ fsm'.connectRetryCounter = fsm.connectRetryCounter + 1
            /\ fsm'.state = Idle

\* C19 (message): an OPEN handled in Established is answered on the
\* connection with the NOTIFICATION for (FiniteStateMachineError, 0)
C19_OpenNotification ==
    \A p \in PeerOpens :
        (Live(conns, fsm.con) /\ EstablishedHandles(p)) =>
            \E i \in DOMAIN lastWrite' :
                lastWrite'[i] =
                    NotificationFor(fsm.con, BGPError(FiniteStateMachineError, 0))

\* C19: every OPEN received in Established is answered with the
\* NOTIFICATION for FiniteStateMachineError, the connection is closed,
\* connectRetryCounter grows by one and the next state is Idle, with or
\* without a second connection referenced
C19_EstablishedOnOpen ==
    [][ C19_OpenToIdle /\ C19_OpenNotification ]_vars

\* C20 (state): outside Established the Adj-RIB-In is nil and holds no route
C20_NoRoutesOutside ==
    fsm.state # Established => fsm.adjRibIn = NilLPM

\* C20 (entry): a step that enters Established leaves a new, empty trie
C20_EstablishedFresh ==
    (fsm.state # Established /\ fsm'.state = Established) =>
        (fsm'.adjRibIn = NewLPM /\ Dump(fsm'.adjRibIn.root) = << >>)

\* C20 (exit): a step that leaves Established enters Idle and clears the
\* Adj-RIB-In
C20_LeavesToIdle ==
    (fsm.state = Established /\ fsm'.state # Established) =>
        (fsm'.state = Idle /\ fsm'.adjRibIn = NilLPM)

\* C20: the Adj-RIB-In is a new empty trie on every entry to Established
\* and is cleared on every entry to Idle; every transition out of
\* Established goes to Idle, so routes are held only in Established and a
\* later session starts without the prefixes of an earlier one
C20_AdjRibInLifecycle ==
    /\ [] C20_NoRoutesOutside
    /\ [][ C20_EstablishedFresh /\ C20_LeavesToIdle ]_vars

\* C20 witness: Idle was entered from Established, with a failure counted,
\* and the Adj-RIB-In is nil
C20_Witness ==
    /\ fsm.state = Idle /\ fsm.lastState = Established
    /\ fsm.connectRetryCounter > 0
    /\ fsm.adjRibIn = NilLPM

\* the step is the msgRecvFailCh case for the report of the receiver of c
RecvFailHandles(c) ==
    \/ MainAt(OpenSent) /\ Commit(openSentRecvFail(W, c), AfterFail(c))
    \/ /\ MainAt(OpenConfirm) \/ MainAt(Established)
       /\ Commit(openConfirmRecvFail(W, c), AfterFail(c))

\* C21 (two tracked): with two connections tracked, a failure reported for
\* one of them closes and drops that one; the other is the primary one
\* afterwards, untouched, and the state is unchanged
C21_FailedOneDropped ==
    \A c \in FailOffers :
        ( /\ RecvFailHandles(c)
          /\ fsm.con # NoCon /\ fsm.con2 # NoCon /\ fsm.con # fsm.con2
          /\ c \in {fsm.con, fsm.con2} ) =>
            LET other == IF c = fsm.con THEN fsm.con2 ELSE fsm.con
            IN  /\ conns'[c].closed
                /\ fsm'.con = other /\ fsm'.con2 = NoCon
                /\ conns'[other] = conns[other]
                /\ fsm'.state = fsm.state

\* C21 (stale report): a failure reported for a connection that is in
\* neither slot closes no connection and leaves the FSM as it is
C21_StaleIgnored ==
    \A c \in FailOffers :
        (RecvFailHandles(c) /\ c \notin {fsm.con, fsm.con2}) =>
            (conns' = conns /\ fsm'.state = fsm.state)

\* C21: a read failure reported by a receiver collapses only the connection
\* it names: of two tracked connections the failed one is closed and
\* dropped, the other is the primary one and the state is unchanged; a
\* report that names neither tracked connection closes none of them and
\* does not change the state
C21_RecvFailCollapsesNamed ==
    [][ C21_FailedOneDropped /\ C21_StaleIgnored ]_vars

\* the NOTIFICATIONs with error code Cease among the peer's messages
PeerCeases ==
    { p \in DecodedPeerMsgs : /\ p.msg.err = NoErr
                              /\ p.msg.Header.Type = NotificationMsg
                              /\ p.msg.Body.ErrorCode = PktCease }

\* the step is the handling in st of the peer's message p received on c
MsgHandledIn(st, p, c) ==
    /\ MainAt(st)
    /\ \E b \in BreakSets(conns, Slots) :
         \/ /\ st = OpenSent
            /\ \E names \in FireSets({"holdTimer", "keepaliveTimer"}) :
                 Commit(openSentMsg(WFired(b, names), c, p.msg), AfterMsg(c))
         \/ /\ st = OpenConfirm
            /\ \E names \in FireSets({"holdTimer"}) :
                 Commit(openConfirmMsg(WFired(b, names), c, p.msg), AfterMsg(c))

\* the collision rule discards c: the passive connection when the local id
\* is the greater one, the dialled connection otherwise
RuleDiscards(c) ==
    IF IdGreater(routerID, fsm.neighborID) THEN isPassive(conns, c)
    ELSE ~isPassive(conns, c)

\* C22 in state st
C22_CeaseIn(st) ==
    \A p \in PeerCeases, c \in MsgOffers :
        MsgHandledIn(st, p, c) =>
            IF RuleDiscards(c)
            THEN /\ Alive'
                 /\ fsm'.state = fsm.state
                 /\ fsm'.connectRetryCounter = fsm.connectRetryCounter
                 /\ \A d \in Slots \ {c, NoCon} : conns'[d] = conns[d]
            ELSE Alive' /\ fsm'.state = Idle

\* C22: in OpenSent and OpenConfirm a NOTIFICATION with code Cease received
\* on the connection the collision rule discards is ignored (state,
\* connectRetryCounter and the other connection stay); received on the
\* connection to be kept it takes the FSM to Idle
C22_CeaseOnDiscarded ==
    [][ C22_CeaseIn(OpenSent) /\ C22_CeaseIn(OpenConfirm) ]_vars

\* after the step the FSM is in Idle and has counted one more failure
IdleCounted ==
    fsm'.state = Idle /\ fsm'.connectRetryCounter = fsm.connectRetryCounter + 1

\* C23 (Connect): sendOpen fails on the connection received in Connect
C23_ConnectOpenFails ==
    \A src \in ConOffers :
        LET w == acceptCon(WCon(src, {OfferedCon}), OfferedCon)
        IN  ( /\ MainAt(Connect) /\ sendOpen(w, w.fsm.con).err
              /\ Commit(connectSendOpen(w), RcvWithCon) /\ TakeCon(src) ) => IdleCounted

\* C23 (Active): sendOpen fails on the connection received in Active
C23_ActiveOpenFails ==
    \A src \in ConOffers :
        LET w == acceptCon(WCon(src, {OfferedCon}), OfferedCon)
        IN  ( /\ MainAt(Active) /\ sendOpen(w, w.fsm.con).err
              /\ Commit(activeSendOpen(w), RcvWithCon) /\ TakeCon(src) ) => IdleCounted

\* C23 (OpenSent): sendKeepalive fails while the peer's OPEN is handled
C23_OpenSentKeepaliveFails ==
    \A p \in PeerOpens, c \in MsgOffers, b \in BreakSets(conns, Slots),
       names \in FireSets({"holdTimer", "keepaliveTimer"}) :
        LET w == WFired(b, names)
            sent == sendKeepalive(stopConnectRetryTimer(resolveCollision(
                        [w EXCEPT !.fsm.neighborID = p.msg.Body.BGPIdentifier])))
        IN  ( /\ MainAt(OpenSent) /\ sent.err
              /\ Commit(openSentMsg(w, c, p.msg), AfterMsg(c)) ) => fsm'.state = Active

\* C23 (keepalive timer): sendKeepalive fails in OpenConfirm or Established
C23_KeepaliveTimerFails ==
    \A b \in BreakSets(conns, Slots) :
        LET w == WTimer("keepaliveTimer", b)
        IN  ( /\ TimerReady(fsm.keepaliveTimer) /\ sendKeepalive(w).err
              /\ \/ /\ MainAt(OpenConfirm)
                    /\ Commit(openConfirmKeepaliveTimer(w), rcv)
                 \/ /\ MainAt(Established)
                    /\ Commit(establishedKeepaliveTimer(w), rcv) ) => IdleCounted

\* C23: a failed write of OPEN or KEEPALIVE is a connection failure: in
\* OpenSent the FSM goes to Active; for the OPEN sent from Connect or Active
\* and the KEEPALIVE sent in OpenConfirm or Established it goes to Idle and
\* connectRetryCounter grows by one
C23_WriteFailure ==
    [][ /\ C23_ConnectOpenFails /\ C23_ActiveOpenFails
        /\ C23_OpenSentKeepaliveFails /\ C23_KeepaliveTimerFails ]_vars

\* the receiver of connection c is blocked in a send to main
RcvSending(c) == c \in DOMAIN rcv /\ rcv[c] \in {"sendMsg", "sendFail"}

\* the receiver of connection c has returned from its send, or the process
\* has ended
RcvLeft(c) == (c \in DOMAIN rcv /\ rcv[c] \in {"recv", "done"}) \/ ~Alive

\* C24 (receiver): a msgReceiver blocked in its send on msgRecvCh or
\* msgRecvFailCh gets out of it
C24_ReceiverLeaves ==
    \A c \in 1 .. MaxCons : RcvSending(c) ~> RcvLeft(c)

\* C24 (connector): tcpConnector gives up a delivery nobody takes, and
\* returns once the tomb is dying
C24_ConnectorLeaves ==
    /\ (tc = "busy") ~> (tc # "busy" \/ ~Alive)
    /\ dying ~> (tc = "done" \/ ~Alive)

\* C24: no helper goroutine blocks forever: a msgReceiver whose connection
\* failed, or whose FSM no longer receives from msgRecvCh and
\* msgRecvFailCh, leaves its send and returns; tcpConnector gives up
\* delivering a connection or an error nobody receives and returns once the
\* tomb is dying
C24_HelpersNeverBlock ==
    C24_ReceiverLeaves /\ C24_ConnectorLeaves

\* the step closes the connection it received and changes nothing else of
\* the FSM and of the connections there were
ClosedUnused ==
    /\ fsm' = fsm
    /\ Len(conns') = Len(conns) + 1
    /\ conns'[OfferedCon].closed
    /\ \A c \in DOMAIN conns : conns'[c] = conns[c]
    /\ lastWrite' = << >>

\* C25 (third connection): a connection received in OpenSent or OpenConfirm
\* while fsm.con2 is set is closed, and the state, both slots, the timers
\* and connectRetryCounter stay
C25_ThirdClosed ==
    ((OpenSentConn \/ OpenConfirmConn) /\ fsm.con2 # NoCon) => ClosedUnused

\* C25 (Idle, Established): a connection received in Idle or Established is
\* closed and nothing else changes
C25_IdleEstablishedClosed ==
    (IdleConn \/ EstablishedConn) => ClosedUnused

\* C25: at most two connections are tracked: a connection that arrives in
\* OpenSent or OpenConfirm while two are tracked is closed, with the state,
\* both tracked connections, the timers and connectRetryCounter unchanged;
\* a connection that arrives in Idle or Established is closed without any
\* change of state
C25_AtMostTwoTracked ==
    [][ C25_ThirdClosed /\ C25_IdleEstablishedClosed ]_vars

\* C25 witness: two connections are tracked and open, a third one was
\* received and is closed; the FSM is still in OpenSent or OpenConfirm
C25_Witness ==
    /\ fsm.state \in {OpenSent, OpenConfirm}
    /\ Len(conns) = 3
    /\ fsm.con = 1 /\ fsm.con2 = 2
    /\ Live(conns, 1) /\ Live(conns, 2)
    /\ conns[3].closed /\ rcv[3] = NoRcv

\* the result is an error value and no message
ErrorOnly(code, sub) ==
    dRes.err = BGPError(code, sub) /\ dRes.Body = NoBody

\* dBuf is, or carries after a good header, the 10-byte OPEN body
OpenBodyOf(buf) ==
    IF buf \in OpenMsgs THEN Drop(buf, MinLen) ELSE buf

\* C26: decoding an OPEN body checks the version before the identifier and
\* returns an error value, no message and no panic, when a rule is
\* violated: OpenMessageError/UnsupportedVersionNumber for a version other
\* than 4, OpenMessageError/BadBGPIdentifier for version 4 with a loopback,
\* multicast, 0.x.x.x or 255.255.255.255 identifier; so for decodeOpenMsg
\* alone and for Decode
C26_OpenRules ==
    ( /\ \/ dOp = "decodeOpenMsg" /\ dBuf \in OpenBodies
         \/ dOp = "Decode" /\ dBuf \in OpenMsgs
      /\ Len(OpenBodyOf(dBuf)) = 10 ) =>
        LET v == FirstOpenViolation(OpenBodyOf(dBuf))
        IN  v # <<0, 0>> => ErrorOnly(v[1], v[2])

\* the identifier field as the uint32 the decoder reads, big-endian, first
\* byte below 128
IdentifierValue(id) == ((id[1] * 256 + id[2]) * 256 + id[3]) * 256 + id[4]

\* the body of TestDecodeOpenMsg: version 4, AS 257, hold time 15,
\* identifier 0.0.10.11
TestOpenBody == <<4, 1, 1, 0, 15, 0, 0, 10, 11, 0>>

\* the fields of a 10-byte OPEN body, every multi-byte field big-endian
OpenFieldsRead(body, msg) ==
    /\ msg # NoBody
    /\ msg.Version = body[1]
    /\ msg.AS = body[2] * 256 + body[3]
    /\ msg.HoldTime = body[4] * 256 + body[5]
    /\ msg.BGPIdentifier = SubSeq(body, 6, 9)
    /\ msg.OptParmLen = body[10]

\* C27: a 10-byte OPEN body with version 4 decodes without error to its
\* fields, read in the order version, AS, hold time, identifier,
\* optional-parameter length, two- and four-byte fields big-endian; the body
\* [4, 1, 1, 0, 15, 0, 0, 10, 11, 0] gives version 4, AS 257, hold time 15,
\* identifier 2571 and optional-parameter length 0
C27_OpenDecodes ==
    /\ ( dOp = "_decodeOpenMsg" /\ Len(dBuf) = 10 /\ dBuf[1] = BGP4Version ) =>
           dRes.err = NoErr /\ OpenFieldsRead(dBuf, dRes.Body)
    /\ ( dOp = "_decodeOpenMsg" /\ dBuf = TestOpenBody ) =>
           /\ dRes.Body # NoBody
           /\ dRes.Body.Version = 4 /\ dRes.Body.AS = 257 /\ dRes.Body.HoldTime = 15
           /\ IdentifierValue(dRes.Body.BGPIdentifier) = 2571
           /\ dRes.Body.OptParmLen = 0

\* the validity table of NOTIFICATION error codes and subcodes
NotifValid(code, sub) ==
    \/ code = 1 /\ sub \in 1 .. 3
    \/ code = 2 /\ sub \in (1 .. 6) \ {5}
    \/ code = 3 /\ sub \in (1 .. 11) \ {7}
    \/ code \in {4, 5, 6} /\ sub = 0

\* dBuf is, or carries after a good header, the two-byte NOTIFICATION body
NotifBodyDecoded ==
    \/ dOp = "decodeNotificationMsg" /\ dBuf \in NotifBodies /\ Len(dBuf) = 2
    \/ dOp = "Decode" /\ dBuf \in NotifMsgs /\ Len(dBuf) = MinLen + 2

NotifBodyOf(buf) ==
    IF buf \in NotifMsgs THEN Drop(buf, MinLen) ELSE buf

\* C28: a NOTIFICATION body is decoded without error if and only if its
\* (error code, error subcode) pair is in the validity table: code 1 with
\* subcodes 1..3, code 2 with 1..6 except 5, code 3 with 1..11 except 7,
\* codes 4, 5 and 6 with subcode 0; code 0 and codes above 6 never
C28_NotificationTable ==
    NotifBodyDecoded =>
        LET b == NotifBodyOf(dBuf)
        IN  /\ dRes.err = NoErr <=> NotifValid(b[1], b[2])
            /\ dRes.err = NoErr =>
                   dRes.Body = [kind |-> "notification", ErrorCode |-> b[1], ErrorSubcode |-> b[2]]

\* a pair next to a deprecated subcode was accepted and the deprecated one is
\* among the inputs
C28_Witness ==
    /\ dOp = "decodeNotificationMsg" /\ dBuf = <<2, 6>>
    /\ dRes.err = NoErr /\ dRes.Body.ErrorSubcode = 6
    /\ <<2, 5>> \in NotifBodies

\* the (code, subcode) pairs the FSM passes to sendNotification: Cease, hold
\* timer, FSM error, collision, and the errors the decoder reports
FsmNotifications ==
    { <<PktCease, 0>>, <<HoldTimeExpired, 0>>, <<FiniteStateMachineError, 0>>,
      <<PktCease, ConnectionCollisionResolution>>,
      <<MessageHeaderError, ConnectionNotSync>>, <<MessageHeaderError, BadMessageLength>>,
      <<MessageHeaderError, BadMessageType>>,
      <<OpenMessageError, UnsupportedVersionNumber>>, <<OpenMessageError, BadBGPIdentifier>> }

\* the messages of the round trip: KEEPALIVE, the NOTIFICATIONs of the FSM,
\* OPEN with version 4 and a valid identifier
RoundTripMsgs ==
    { m \in EncMsgs :
        \/ m.Type = KeepaliveMsg
        \/ m.Type = NotificationMsg
             /\ <<m.Body.ErrorCode, m.Body.ErrorSubcode>> \in FsmNotifications
        \/ m.Type = OpenMsg /\ m.Body.Version = 4 /\ OpenIdOK(m.Body.BGPIdentifier) }

EncodedLength(typ) ==
    IF typ = KeepaliveMsg THEN 19 ELSE IF typ = NotificationMsg THEN 21 ELSE 29

\* the bytes of m have the length of their header, 19, 21 or 29, and a header
\* that breaks no rule
C29_HeaderOf(m) ==
    /\ Len(dBuf) = EncodedLength(m.Type)
    /\ HeaderLength(dBuf) = Len(dBuf)
    /\ decodeHeader(dBuf).err = NoErr

\* Decode returned m
C29_DecodedIs(m) ==
    /\ dRes.err = NoErr
    /\ dRes.Header = [Length |-> Len(dBuf), Type |-> m.Type]
    /\ dRes.Body = m.Body

\* C29: for KEEPALIVE, for every NOTIFICATION with a (code, subcode) pair the
\* FSM emits and for every OPEN with version 4, a valid identifier and no
\* optional parameters, the encoder's bytes have the length 19, 21 or 29 their
\* header states, the header breaks no header rule, and Decode of the bytes
\* succeeds and returns the message, equal in every field
C29_RoundTrip ==
    \A m \in RoundTripMsgs :
        /\ ( dOp = "Encode" /\ dRes.Body = m.Body /\ dRes.Header.Type = m.Type ) =>
               C29_HeaderOf(m)
        /\ ( dOp = "DecodeEncoded" /\ dBuf = Encode(m.Type, m.Body) ) =>
               C29_HeaderOf(m) /\ C29_DecodedIs(m)

\* dBuf is, or carries after a good header, an UPDATE body that was decoded
UpdateDecoded ==
    \/ dOp = "decodeUpdateMsg" /\ dBuf \in UpdateBodies
    \/ dOp = "Decode" /\ dBuf \in UpdateMsgs

UpdateBodyOf(buf) ==
    IF buf \in UpdateMsgs THEN Drop(buf, MinLen) ELSE buf

\* the steps of decodeUpdateMsg on body: the withdrawn routes, the total path
\* attribute length, the path attributes
WithdrawnOf(body) == decodeNLRIs(Drop(body, 2), U16BE(body))
TotalLenOf(body) == ReadFull(WithdrawnOf(body).buf, 2)
AttrsOf(body) == decodePathAttrs(TotalLenOf(body).buf, U16BE(TotalLenOf(body).bytes))

\* decodeUpdateMsg gets as far as computing nlriLen
NlriLenComputed(body) ==
    /\ Len(body) >= 2 /\ WithdrawnOf(body).err = NoErr
    /\ TotalLenOf(body).ok /\ AttrsOf(body).err = NoErr

\* message length - 19 - 4 - total path attribute length - withdrawn routes
\* length, as an integer
NlriLenOf(body) == Len(body) - 4 - U16BE(TotalLenOf(body).bytes) - U16BE(body)

\* the bytes the NLRI section read
NlriRead(body) ==
    IF U16(NlriLenOf(body)) > 0
    THEN Len(AttrsOf(body).buf) - Len(decodeNLRIs(AttrsOf(body).buf, U16(NlriLenOf(body))).buf)
    ELSE 0

\* C30 (sections): an UPDATE decoded without error had exactly
\* withdrawn-routes-len bytes read as withdrawn routes, exactly
\* total-path-attr-len bytes as path attributes and exactly the remaining
\* message length - 19 - 4 - both lengths as NLRI
C30_ExactSections ==
    ( UpdateDecoded /\ dRes.err = NoErr ) =>
        LET body == UpdateBodyOf(dBuf)
        IN  /\ Len(body) - 2 - Len(WithdrawnOf(body).buf) = U16BE(body)
            /\ Len(TotalLenOf(body).buf) - Len(AttrsOf(body).buf) = U16BE(TotalLenOf(body).bytes)
            /\ NlriRead(body) = NlriLenOf(body)

\* C30 (too long): when the two declared lengths and their four bytes add up
\* to more than the body, decoding fails
C30_OverlongFails ==
    UpdateDecoded =>
        LET body == UpdateBodyOf(dBuf)
        IN  ( NlriLenComputed(body) /\ NlriLenOf(body) < 0 ) => dRes.err # NoErr

\* C30 (no wrap): the NLRI length decodeUpdateMsg computes is never the
\* result of a 16-bit subtraction that wrapped around
C30_NoWrap ==
    UpdateDecoded =>
        LET body == UpdateBodyOf(dBuf)
        IN  NlriLenComputed(body) => U16(NlriLenOf(body)) = NlriLenOf(body)

\* C30: UPDATE framing: the three sections are read with exactly their
\* declared lengths, the NLRI one with message length - 19 - 4 -
\* total-path-attr-len - withdrawn-routes-len; lengths that add up to more
\* than the body make decoding fail, and the NLRI length never comes from a
\* 16-bit subtraction that wrapped around
C30_UpdateFraming ==
    C30_ExactSections /\ C30_OverlongFails /\ C30_NoWrap

\* the first path attribute of an UPDATE body without withdrawn routes: its
\* header fields, the bytes after its header, and its value when all of the
\* declared length is there
FirstAttr(body) ==
    LET a == Drop(body, 4)
        ext == isExtendedLength(a[1])
        length == IF ext THEN U16BE(Drop(a, 2)) ELSE a[3]
        rest == Drop(a, IF ext THEN 4 ELSE 3)
    IN  [TypeCode |-> a[2], Length |-> length, hdr |-> IF ext THEN 4 ELSE 3,
         rest |-> rest, framed |-> Len(rest) >= length,
         value |-> Take(rest, min(length, Len(rest)))]

AttrBodyDecoded == dOp = "decodeUpdateMsg" /\ dBuf \in AttrBodies

\* the per-code rules an attribute with its whole value present violates
AttrViolates(a) ==
    \/ a.TypeCode \notin 1 .. 7
    \/ a.TypeCode = OriginAttr /\ (Len(a.rest) = 0 \/ a.rest[1] \notin {0, 1, 2})
    \/ /\ a.TypeCode = ASPathAttr /\ a.Length >= 2 /\ Len(a.rest) >= 2
       /\ a.rest[1] \notin {ASSet, ASSequence} \/ a.rest[2] = 0

\* well-formed attributes and the values they carry
GoodAttrs ==
    { [bytes |-> <<64, 1, 1, 0>>, TypeCode |-> OriginAttr, Value |-> <<0>>],
      [bytes |-> <<64, 1, 1, 2>>, TypeCode |-> OriginAttr, Value |-> <<2>>],
      [bytes |-> <<64, 2, 4, 2, 1, 0, 100>>, TypeCode |-> ASPathAttr,
       Value |-> << [Type |-> 2, Count |-> 1, ASNs |-> <<100>>] >>],
      [bytes |-> <<80, 2, 0, 6, 1, 2, 0, 1, 0, 2>>, TypeCode |-> ASPathAttr,
       Value |-> << [Type |-> 1, Count |-> 2, ASNs |-> <<1, 2>>] >>],
      [bytes |-> <<64, 3, 4, 10, 0, 0, 1>>, TypeCode |-> NextHopAttr, Value |-> <<10, 0, 0, 1>>],
      [bytes |-> <<64, 6, 0>>, TypeCode |-> AtomicAggrAttr, Value |-> << >>],
      [bytes |-> <<64, 7, 6, 0, 100, 10, 0, 0, 1>>, TypeCode |-> AggregatorAttr,
       Value |-> <<0, 100, 10, 0, 0, 1>>] }

\* C31 (rejected): decoding an UPDATE fails when its first attribute has a
\* type code outside 1..7, is an ORIGIN with a value outside {0, 1, 2} or
\* with no value byte to read, or is an AS_PATH whose first segment has a type
\* other than AS_SET and AS_SEQUENCE or the count 0
C31_ViolationFails ==
    ( AttrBodyDecoded /\ AttrViolates(FirstAttr(dBuf)) ) => dRes.err # NoErr

\* C31 (accepted): an UPDATE made of well-formed attributes decodes without
\* error to these attributes, type codes and values in wire order
C31_GoodDecodes ==
    \A g \in GoodAttrs :
        ( AttrBodyDecoded /\ dBuf = <<0, 0, 0, Len(g.bytes) + 4>> \o g.bytes \o <<64, 1, 1, 0>> ) =>
            /\ dRes.err = NoErr
            /\ Len(dRes.Body.PathAttributes) = 2
            /\ dRes.Body.PathAttributes[1].TypeCode = g.TypeCode
            /\ dRes.Body.PathAttributes[1].Value = g.Value
            /\ dRes.Body.PathAttributes[2].TypeCode = OriginAttr
            /\ dRes.Body.PathAttributes[2].Value = <<0>>

\* C31: decoding an UPDATE fails whenever an attribute violates its
\* per-code rule (type code outside 1..7, ORIGIN value outside {0, 1, 2} or
\* unreadable, AS_PATH segment type other than 1 and 2, AS_PATH segment count
\* 0), and an UPDATE whose attributes satisfy the rules decodes without error
\* with the attribute values in wire order
C31_AttrRules == C31_ViolationFails /\ C31_GoodDecodes

\* ceil(pfxlen / 8) of the prefix length byte
PfxOctets(pfxlen) == (pfxlen + 7) \div 8

\* C32 (bytes): a decoded NLRI entry removed exactly 1 + ceil(pfxlen / 8)
\* bytes from the buffer and reports that number as consumed
C32_BytesRemoved ==
    ( dOp = "decodeNLRI" /\ dRes.err = NoErr ) =>
        /\ Len(dBuf) - Len(dRes.Body.rest) = 1 + PfxOctets(dBuf[1])
        /\ dRes.Body.consumed = Len(dBuf) - Len(dRes.Body.rest)

\* C32 (prefix): the address of a decoded NLRI entry is the bytes read
\* followed by zeros, and its prefix length is at most 32
C32_PrefixRead ==
    ( dOp = "decodeNLRI" /\ dRes.err = NoErr ) =>
        /\ \A i \in 1 .. 4 :
             dRes.Body.nlri.IP[i] = IF i <= PfxOctets(dBuf[1]) THEN dBuf[i + 1] ELSE 0
        /\ dRes.Body.nlri.Pfxlen \in 0 .. 32

\* a prefix length byte above 32 gives no entry
C32_LongRejected ==
    ( dOp = "decodeNLRI" /\ dBuf[1] > 32 ) => dRes.err # NoErr

\* C32: for every prefix length byte, one NLRI entry removes exactly
\* 1 + ceil(pfxlen / 8) bytes from the buffer, reports as consumed the number
\* of bytes it removed, leaves the unread bytes of the 4-byte address zero,
\* and has a prefix length within 0..32, a length byte above 32 giving no
\* prefix
C32_NLRIEntry == C32_BytesRemoved /\ C32_PrefixRead /\ C32_LongRejected

\* what the switch of decodePathAttrs does with the first attribute of body
FirstValue(body) ==
    decodeAttrValue(FirstAttr(body).rest, FirstAttr(body).TypeCode, FirstAttr(body).Length)

\* the value bytes removed from the buffer for the first attribute
ValueBytesRemoved(body) == Len(FirstAttr(body).rest) - Len(FirstValue(body).buf)

\* the size of the value of the fixed-size attributes, 0 for the others
FixedSize(typeCode) ==
    IF typeCode = OriginAttr THEN 1
    ELSE IF typeCode \in {NextHopAttr, MEDAttr, LocalPrefAttr} THEN 4
    ELSE IF typeCode = AggregatorAttr THEN 6
    ELSE 0

\* C33 (removed): once an attribute of declared length L was processed,
\* exactly L value bytes were removed from the buffer
C33_LengthRemoved ==
    ( AttrBodyDecoded /\ FirstAttr(dBuf).TypeCode \in 1 .. 7 /\ FirstValue(dBuf).ok ) =>
        ValueBytesRemoved(dBuf) = FirstAttr(dBuf).Length

\* C33 (too short): a fixed-size attribute whose declared length is smaller
\* than its size makes decoding fail
C33_ShortFails ==
    ( AttrBodyDecoded /\ FirstAttr(dBuf).Length < FixedSize(FirstAttr(dBuf).TypeCode) ) =>
        dRes.err # NoErr

\* C33 (next header): a second attribute that was decoded is the one whose
\* header starts at header size + L after the start of the first
C33_NextHeader ==
    ( AttrBodyDecoded /\ dRes.err = NoErr /\ Len(dRes.Body.PathAttributes) >= 2 ) =>
        LET a == FirstAttr(dBuf)
            next == Drop(dBuf, 4 + a.hdr + a.Length)
        IN  /\ Len(next) >= 3
            /\ dRes.Body.PathAttributes[2].TypeCode = next[2]
            /\ dRes.Body.PathAttributes[2].Length = next[3]

\* C33: after a path attribute with declared length L was processed, exactly
\* L value bytes were removed from the buffer, for every type code and L: the
\* fixed-size attributes drain the excess of a larger L and fail on a smaller
\* one, ATOMIC_AGGREGATE with L > 0 is drained, AS_PATH does not read past L;
\* so the next attribute header is read at header size + L
C33_AttrAlignment == C33_LengthRemoved /\ C33_ShortFails /\ C33_NextHeader

\* c hangs rightly on the slot of n for decision bit `bit`: n.pfx contains
\* c.pfx and bit n.pfxlen + 1 of c's address is `bit`
ChildOK(n, c, bit) ==
    /\ RefContains(n.pfx, c.pfx)
    /\ c.pfx.addr[n.pfx.pfxlen + 1] = bit

\* every child in the trie below p hangs rightly
RECURSIVE StructureOK(_)
StructureOK(p) ==
    IF p = Nil THEN TRUE
    ELSE LET n == p[1]
         IN  /\ n.l # Nil => ChildOK(n, n.l[1], 0)
             /\ n.h # Nil => ChildOK(n, n.h[1], 1)
             /\ StructureOK(n.l) /\ StructureOK(n.h)

\* C34: in every trie reachable by Insert calls, each node's prefix contains
\* the prefix of each child it has, and bit pfxlen + 1 of the child's address
\* is 0 for the low child and 1 for the high child
C34_TrieStructure == StructureOK(root)

\* every node below p, whose parent has the prefix length parentLen, has the
\* skip its prefix length less parentLen less one
RECURSIVE SkipOK(_, _)
SkipOK(p, parentLen) ==
    IF p = Nil THEN TRUE
    ELSE LET n == p[1]
         IN  /\ n.skip = n.pfx.pfxlen - parentLen - 1
             /\ SkipOK(n.l, n.pfx.pfxlen) /\ SkipOK(n.h, n.pfx.pfxlen)

\* C35: in every trie reachable by Insert calls the root's skip is its prefix
\* length and every other node's skip is its prefix length less its parent's
\* prefix length less one, as integers: none of the 8-bit subtractions that
\* compute a skip wraps around
C35_SkipInvariant ==
    root # Nil =>
        /\ root[1].skip = root[1].pfx.pfxlen
        /\ SkipOK(root[1].l, root[1].pfx.pfxlen) /\ SkipOK(root[1].h, root[1].pfx.pfxlen)

(***************************************************************************)
(* Order of session establishment                                          *)
(***************************************************************************)
\* the KEEPALIVEs among the messages the peer of this run sends
PeerKeepalives ==
    { p \in SentMsgs : p.msg.err = NoErr /\ p.msg.Header.Type = KeepaliveMsg }

\* the step wrote m on connection c
WrittenOn(c, m) ==
    \E i \in DOMAIN lastWrite' : lastWrite'[i] = [con |-> c, msg |-> m]

\* C36 (states): the state the FSM is in was entered from its predecessor
\* in the order of establishment
C36_EnteredFrom ==
    /\ fsm.state = Established => fsm.lastState = OpenConfirm
    /\ fsm.state = OpenConfirm => fsm.lastState = OpenSent
    /\ fsm.state = OpenSent => fsm.lastState \in {Connect, Active}

\* C36 (Established): a step that enters Established is openConfirm
\* handling a KEEPALIVE received from the peer
C36_EstablishedEntry ==
    (fsm.state # Established /\ fsm'.state = Established) =>
        /\ fsm.state = OpenConfirm
        /\ \E p \in PeerKeepalives, c \in MsgOffers : MsgHandledIn(OpenConfirm, p, c)

\* C36 (OpenConfirm): a step that enters OpenConfirm is openSent handling a
\* valid OPEN received from the peer, and it wrote a KEEPALIVE on the
\* primary connection
C36_OpenConfirmEntry ==
    (fsm.state # OpenConfirm /\ fsm'.state = OpenConfirm) =>
        /\ fsm.state = OpenSent
        /\ \E p \in PeerOpens \cap SentMsgs, c \in MsgOffers : MsgHandledIn(OpenSent, p, c)
        /\ WrittenOn(fsm'.con, KeepaliveWritten)

\* C36 (OpenSent): a step that enters OpenSent is the conCh case of connect
\* or of active; the connection received is the primary one, it is open and
\* the OPEN was written on it
C36_OpenSentEntry ==
    (fsm.state # OpenSent /\ fsm'.state = OpenSent) =>
        /\ fsm.state \in {Connect, Active}
        /\ ConnectConn \/ ActiveConn
        /\ fsm'.con = OfferedCon /\ Live(conns', fsm'.con)
        /\ WrittenOn(fsm'.con, OpenWritten)

\* C36: Established is entered only from OpenConfirm on a received
\* KEEPALIVE, OpenConfirm only from OpenSent on a received valid OPEN (the
\* step writes the local KEEPALIVE), and OpenSent only from Connect or Active
\* after a connection was obtained and the local OPEN was written on it; so
\* every entry to Established is preceded, in this order, by OPEN sent, OPEN
\* received, KEEPALIVE sent and KEEPALIVE received since the FSM was in Idle
C36_EstablishmentOrder ==
    /\ [] C36_EnteredFrom
    /\ [][ C36_EstablishedEntry /\ C36_OpenConfirmEntry /\ C36_OpenSentEntry ]_vars

\* C36 witness: Established was entered from OpenConfirm, over a connection
\* that is open
C36_Witness ==
    /\ fsm.state = Established /\ fsm.lastState = OpenConfirm
    /\ mainPc = "select"
    /\ Live(conns, fsm.con)
    /\ fsm.adjRibIn = NewLPM

(***************************************************************************)
(* The two connection slots                                                *)
(***************************************************************************)
\* C37 (states): the collision slot does not refer to the connection of the
\* primary slot
C37_Distinct ==
    fsm.con2 # NoCon => fsm.con2 # fsm.con

\* C37 (resolution): after a step in which collision resolution ran on two
\* tracked connections the collision slot is empty
C37_ResolvedEmpty ==
    \A p \in PeerOpens :
        (TwoTracked /\ HandlesOpen(p)) => fsm'.con2 = NoCon

\* C37 (report): in OpenConfirm and Established the failure report of the
\* receiver of a closed connection, the primary connection being open,
\* leaves the primary connection open and the state as it is
C37_DiscardedReportHarmless ==
    \A c \in FailOffers :
        ( /\ fsm.state \in {OpenConfirm, Established}
          /\ conns[c].closed /\ Live(conns, fsm.con)
          /\ RecvFailHandles(c) ) =>
            /\ fsm'.state = fsm.state
            /\ fsm'.con = fsm.con /\ Live(conns', fsm.con)

\* C37: the primary and the collision slot never refer to the same
\* connection; once collision resolution has run the collision slot is
\* empty; the later read-failure report for the discarded connection does
\* not close the kept connection and does not move the FSM out of
\* OpenConfirm or Established
C37_SlotsDistinct ==
    /\ [] C37_Distinct
    /\ [][ C37_ResolvedEmpty /\ C37_DiscardedReportHarmless ]_vars

(***************************************************************************)
(* Connections on entry to Idle                                            *)
(***************************************************************************)
\* the step takes the FSM from another state into Idle
IntoIdle == fsm.state # Idle /\ fsm'.state = Idle

\* C38 (cleared): after a step into Idle both slots are nil
C38_Cleared ==
    IntoIdle => (fsm'.con = NoCon /\ fsm'.con2 = NoCon)

\* C38 (closed): after a step into Idle the connections the slots referred
\* to before or refer to after the step are closed
C38_Closed ==
    IntoIdle =>
        \A c \in {fsm.con, fsm.con2, fsm'.con, fsm'.con2} \ {NoCon} : conns'[c].closed

\* C38: on every transition into Idle both connection slots have been
\* closed and cleared, so no connection of the ended session is open or
\* referenced when the next session starts
C38_IdleHoldsNoConnection ==
    [][ C38_Cleared /\ C38_Closed ]_vars

(***************************************************************************)
(* Messages in OpenConfirm                                                 *)
(***************************************************************************)
\* the messages of the peer that Decode accepts
Decodable == { p \in SentMsgs : p.msg.err = NoErr }

\* C39 (loop): after openConfirm handled a decodable message main is still
\* running
C39_LoopGoesOn ==
    \A p \in Decodable, c \in MsgOffers :
        MsgHandledIn(OpenConfirm, p, c) => Alive'

\* C39 (outcome): what the step leaves, by message type
C39_Outcome ==
    \A p \in Decodable, c \in MsgOffers :
        (TrackedLive /\ MsgHandledIn(OpenConfirm, p, c)) =>
            LET t == p.msg.Header.Type
            IN  /\ (t = NotificationMsg /\ ~(p \in PeerCeases /\ RuleDiscards(c))) =>
                       IdleCounted
                /\ t = KeepaliveMsg => fsm'.state = Established
                /\ t = OpenMsg =>
                       /\ fsm'.state = OpenConfirm
                       /\ fsm'.neighborID = p.msg.Body.BGPIdentifier
                /\ t = UpdateMsg =>
                       /\ IdleCounted
                       /\ \E i \in DOMAIN lastWrite' :
                            lastWrite'[i] =
                                NotificationFor(fsm.con, BGPError(FiniteStateMachineError, 0))

\* C39: openConfirm handles every decodable message type without stopping
\* the FSM loop: a NOTIFICATION that is not an ignorable Cease leads to Idle
\* with connectRetryCounter one greater, a KEEPALIVE to Established, an OPEN
\* re-runs collision resolution and stays in OpenConfirm, an UPDATE leads to
\* Idle with a FiniteStateMachineError NOTIFICATION; the body the decoder
\* produced is of the form the handler expects
C39_OpenConfirmMessages ==
    [][ C39_LoopGoesOn /\ C39_Outcome ]_vars

(***************************************************************************)
(* Hold time 0                                                             *)
(***************************************************************************)
\* a session whose negotiated hold time is 0
ZeroHoldSession == fsm.state \in {OpenConfirm, Established} /\ fsm.holdTime = 0

\* C40 (timer): in a session with hold time 0 the hold timer is not armed,
\* by the 4-minute timer of OpenSent or by a later Reset, and no value waits
\* in its channel
C40_Disarmed ==
    ZeroHoldSession => ~TimerReady(fsm.holdTimer)

\* C40 (expiry): the hold timer case is not taken in a session with hold
\* time 0
C40_NoExpiry ==
    ZeroHoldSession => ~(OpenConfirmHoldTimer \/ EstablishedHoldTimer)

\* C40: with a negotiated hold time of 0 no step in OpenSent, OpenConfirm or
\* Established arms the hold timer and the 4-minute timer of OpenSent does
\* not stay armed, so the expiry of the hold timer never takes such a
\* session from OpenConfirm or Established to Idle
C40_ZeroHoldTime ==
    /\ [] C40_Disarmed
    /\ [][ C40_NoExpiry ]_vars

====
